---- MODULE Spec2Model ----
(***************************************************************************)
(* Transaction ingestion and double-entry derivation of the rental-fleet   *)
(* ERP: the transaction store of App, the entry form and the CSV import of *)
(* TransactionManager, the journal derivation, the raw journal import and  *)
(* the income statement of AccountingView.                                 *)
(*                                                                         *)
(* A JavaScript string is a sequence of one-character strings.  A          *)
(* JavaScript number is a decimal [m, e] standing for m / 10^e, kept       *)
(* normalised (e is the least exponent that represents the value); NaN is  *)
(* the record with e = -1.                                                 *)
(***************************************************************************)
EXTENDS Integers, Sequences, FiniteSets, TLC

VARIABLES
  transactions,      \* App: the transaction store, newest first
  uploadedEntries,   \* AccountingView: the entries of the raw journal import
  now,               \* Date.now() at its last reading, in ms since the page was loaded
  reading,           \* the FileReader loads in flight, in the order they started
  alert,             \* the last alert shown
  lastCall,          \* the last call into the store: its callback and its size
  input, output      \* argument and result of a function applied on its own

vars == <<transactions, uploadedEntries, now, reading, alert, lastCall, input, output>>

(***************************************************************************)
(* Strings                                                                 *)
(***************************************************************************)
UpperCase == <<"A", "B", "C", "D", "E", "F", "G", "H", "I", "J", "K", "L", "M", "N", "O", "P", "Q", "R", "S", "T", "U", "V", "W", "X", "Y", "Z">>

LowerCase == <<"a", "b", "c", "d", "e", "f", "g", "h", "i", "j", "k", "l", "m", "n", "o", "p", "q", "r", "s", "t", "u", "v", "w", "x", "y", "z">>

Digits == <<"0", "1", "2", "3", "4", "5", "6", "7", "8", "9">>

WhiteSpace == {" ", "\t", "\n", "\r"}

DigitSet == {Digits[i] : i \in 1..Len(Digits)}

DigitOf == [c \in DigitSet |-> (CHOOSE i \in 1..Len(Digits) : Digits[i] = c) - 1]

LowerOf ==
  [c \in {UpperCase[i] : i \in 1..Len(UpperCase)} |->
     LowerCase[CHOOSE i \in 1..Len(UpperCase) : UpperCase[i] = c]]

IsDigit(c) == c \in DigitSet

DigitVal(c) == DigitOf[c]

toLowerChar(c) == IF c \in DOMAIN LowerOf THEN LowerOf[c] ELSE c

toLowerCase(s) == [i \in 1..Len(s) |-> toLowerChar(s[i])]

\* sub occurs in s at the 0-based index i.
occursAt(s, sub, i) ==
  i >= 0 /\ i + Len(sub) <= Len(s) /\ \A k \in 1..Len(sub) : s[i + k] = sub[k]

\* The least / greatest 0-based index at which sub occurs in s, -1 when none.
indexOf(s, sub) ==
  LET hits == {i \in 0..(Len(s) - Len(sub)) : occursAt(s, sub, i)}
  IN IF hits = {} THEN -1 ELSE CHOOSE i \in hits : \A j \in hits : i <= j

lastIndexOf(s, sub) ==
  LET hits == {i \in 0..(Len(s) - Len(sub)) : occursAt(s, sub, i)}
  IN IF hits = {} THEN -1 ELSE CHOOSE i \in hits : \A j \in hits : i >= j

includes(s, sub) == \E i \in 0..(Len(s) - Len(sub)) : occursAt(s, sub, i)

startsWith(s, sub) == occursAt(s, sub, 0)

endsWith(s, sub) == occursAt(s, sub, Len(s) - Len(sub))

\* s.trim(): from the first to the last character that is not white space.
trim(s) ==
  LET ink == {i \in 1..Len(s) : s[i] \notin WhiteSpace}
  IN IF ink = {} THEN <<>>
     ELSE SubSeq(s, CHOOSE i \in ink : \A j \in ink : i <= j,
                    CHOOSE i \in ink : \A j \in ink : i >= j)

\* s.split(c) for a one-character separator: always at least one part; the
\* k-th part lies between the (k-1)-th and the k-th occurrence of c.
split(s, c) ==
  LET seps == {i \in 1..Len(s) : s[i] = c}
      sep(k) == IF k = 0 THEN 0
                ELSE IF k > Cardinality(seps) THEN Len(s) + 1
                ELSE CHOOSE i \in seps : Cardinality({j \in seps : j < i}) = k - 1
  IN [k \in 1..(Cardinality(seps) + 1) |-> SubSeq(s, sep(k - 1) + 1, sep(k) - 1)]

\* s.replace(/[chars]/g, '') : every character of the set removed.
removeAll(s, chars) == SelectSeq(s, LAMBDA c : c \notin chars)

\* s.replace(c, d) with a string pattern: only the first occurrence.
replaceFirst(s, c, d) ==
  LET i == indexOf(s, <<c>>)
  IN IF i < 0 THEN s ELSE SubSeq(s, 1, i) \o d \o SubSeq(s, i + 2, Len(s))

\* The number of occurrences of the character c in s.
count(s, c) == Cardinality({i \in 1..Len(s) : s[i] = c})

RECURSIVE toDigits(_)
toDigits(n) == IF n < 10 THEN <<Digits[n + 1]>> ELSE toDigits(n \div 10) \o <<Digits[(n % 10) + 1]>>

\* String(n) of an integer, as a template literal renders it.
toString(n) == IF n < 0 THEN <<"-">> \o toDigits(-n) ELSE toDigits(n)

(***************************************************************************)
(* Numbers                                                                 *)
(***************************************************************************)
NaN == [m |-> 0, e |-> -1]

isNaN(x) == x.e < 0

RECURSIVE Pow10(_)
Pow10(k) == IF k = 0 THEN 1 ELSE 10 * Pow10(k - 1)

RECURSIVE Norm(_, _)
Norm(m, e) == IF e > 0 /\ m % 10 = 0 THEN Norm(m \div 10, e - 1) ELSE [m |-> m, e |-> e]

Num(n) == [m |-> n, e |-> 0]

Zero == Num(0)

Neg(x) == IF isNaN(x) THEN NaN ELSE [m |-> -x.m, e |-> x.e]

abs(x) == IF isNaN(x) THEN NaN ELSE [m |-> IF x.m < 0 THEN -x.m ELSE x.m, e |-> x.e]

Add(x, y) ==
  IF isNaN(x) \/ isNaN(y) THEN NaN
  ELSE LET e == IF x.e > y.e THEN x.e ELSE y.e
       IN Norm(x.m * Pow10(e - x.e) + y.m * Pow10(e - y.e), e)

Sub(x, y) == Add(x, Neg(y))

\* x > 0, x < 0, x >= 0 : every comparison with NaN is false.
Gt0(x) == ~isNaN(x) /\ x.m > 0

Lt0(x) == ~isNaN(x) /\ x.m < 0

Ge0(x) == ~isNaN(x) /\ x.m >= 0

\* x || 0 : NaN and 0 are falsy.
OrZero(x) == IF isNaN(x) THEN Zero ELSE x

\* parseFloat on a string without leading white space and without exponent:
\* the longest prefix [+-]digits[.digits] with at least one digit, else NaN.
RECURSIVE digitRun(_)
digitRun(s) == IF s # <<>> /\ IsDigit(Head(s)) THEN 1 + digitRun(Tail(s)) ELSE 0

RECURSIVE digitsValue(_)
digitsValue(s) ==
  IF s = <<>> THEN 0 ELSE 10 * digitsValue(SubSeq(s, 1, Len(s) - 1)) + DigitVal(s[Len(s)])

parseFloat(str) ==
  LET number(body, ni, rest, nf) ==
        IF ni + nf = 0 THEN NaN
        ELSE Norm(digitsValue(SubSeq(body, 1, ni) \o SubSeq(rest, 2, nf + 1)), nf)
      fraction(body, ni, rest) ==
        number(body, ni, rest,
               IF rest # <<>> /\ Head(rest) = "." THEN digitRun(Tail(rest)) ELSE 0)
      integer(body, ni) == fraction(body, ni, SubSeq(body, ni + 1, Len(body)))
      unsigned(body) == integer(body, digitRun(body))
  IN IF str # <<>> /\ Head(str) = "-" THEN Neg(unsigned(Tail(str)))
     ELSE IF str # <<>> /\ Head(str) = "+" THEN unsigned(Tail(str))
     ELSE unsigned(str)

(***************************************************************************)
(* Transactions and the chart of accounts                                  *)
(***************************************************************************)
\* An optional field that is not set (contraAccount?: string).
Undefined == <<"undefined">>

Categories == {"Revenue", "Expense", "Asset", "Liability", "Equity"}

MOCK_TRANSACTIONS ==
  << [id |-> <<"T", "X", "0", "0", "1">>, date |-> <<"2", "0", "2", "4", "-", "0", "6", "-", "0", "1">>, description |-> <<"R", "e", "n", "t", "a", "l", " ", "I", "n", "c", "o", "m", "e", " ", "-", " ", "I", "n", "v", " ", "#", "1", "0", "0", "1">>,
      category |-> "Revenue", amount |-> Num(450000), reference |-> <<"I", "N", "V", "-", "1", "0", "0", "1">>,
      contraAccount |-> Undefined],
     [id |-> <<"T", "X", "0", "0", "2">>, date |-> <<"2", "0", "2", "4", "-", "0", "6", "-", "0", "2">>,
      description |-> <<"P", "u", "r", "c", "h", "a", "s", "e", " ", "P", "a", "r", "t", "s", " ", "(", "T", "i", "r", "e", "s", ")", " ", "-", " ", "M", "i", "t", "r", "a", " ", "M", "o", "t", "o", "r">>,
      category |-> "Expense", amount |-> Num(-2500000), reference |-> <<"P", "O", "-", "5", "0", "2">>,
      contraAccount |-> <<"2", "0", "0", "0">>],
     [id |-> <<"T", "X", "0", "0", "3">>, date |-> <<"2", "0", "2", "4", "-", "0", "6", "-", "0", "3">>, description |-> <<"R", "e", "n", "t", "a", "l", " ", "I", "n", "c", "o", "m", "e", " ", "-", " ", "I", "n", "v", " ", "#", "1", "0", "0", "2">>,
      category |-> "Revenue", amount |-> Num(1200000), reference |-> <<"I", "N", "V", "-", "1", "0", "0", "2">>,
      contraAccount |-> Undefined],
     [id |-> <<"T", "X", "0", "0", "4">>, date |-> <<"2", "0", "2", "4", "-", "0", "6", "-", "0", "4">>, description |-> <<"M", "o", "n", "t", "h", "l", "y", " ", "G", "a", "r", "a", "g", "e", " ", "R", "e", "n", "t">>,
      category |-> "Expense", amount |-> Num(-5000000), reference |-> <<"A", "P", "-", "2", "0", "1">>,
      contraAccount |-> Undefined],
     [id |-> <<"T", "X", "0", "0", "5">>, date |-> <<"2", "0", "2", "4", "-", "0", "6", "-", "0", "5">>,
      description |-> <<"N", "e", "w", " ", "U", "n", "i", "t", " ", "P", "u", "r", "c", "h", "a", "s", "e", " ", "(", "D", "o", "w", "n", " ", "P", "a", "y", "m", "e", "n", "t", ")">>,
      category |-> "Asset", amount |-> Num(-7000000), reference |-> <<"C", "A", "P", "E", "X", "-", "0", "1">>,
      contraAccount |-> Undefined] >>

(***************************************************************************)
(* AccountingView: the double-entry engine                                 *)
(***************************************************************************)
JournalLine(accountId, accountName, debit, credit) ==
  [accountId |-> accountId, accountName |-> accountName, debit |-> debit, credit |-> credit]

\* The Revenue branch: debit Bank, credit Revenue.
revenueLines(absAmount) ==
  << JournalLine(<<"1", "0", "0", "2">>, <<"B", "a", "n", "k", " ", "B", "C", "A">>, absAmount, Zero),
     JournalLine(<<"4", "0", "0", "0">>, <<"R", "e", "n", "t", "a", "l", " ", "R", "e", "v", "e", "n", "u", "e">>, Zero, absAmount) >>

\* expenseAccount without the toLowerCase: the keywords match case-sensitively.
expenseAccount_caseSensitive(description) ==
  IF includes(description, <<"m", "a", "i", "n", "t", "e", "n", "a", "n", "c", "e">>) \/ includes(description, <<"p", "a", "r", "t", "s">>)
  THEN [id |-> <<"5", "0", "0", "1">>, name |-> <<"M", "a", "i", "n", "t", "e", "n", "a", "n", "c", "e", " ", "E", "x", "p", "e", "n", "s", "e">>]
  ELSE [id |-> <<"5", "0", "0", "2">>, name |-> <<"R", "e", "n", "t", " ", "E", "x", "p", "e", "n", "s", "e", " ", "(", "G", "a", "r", "a", "g", "e", ")">>]

\* The expense account, by keyword of the description.
expenseAccount(description) ==
  IF \/ includes(toLowerCase(description), <<"m", "a", "i", "n", "t", "e", "n", "a", "n", "c", "e">>)
     \/ includes(toLowerCase(description), <<"p", "a", "r", "t", "s">>)
  THEN [id |-> <<"5", "0", "0", "1">>, name |-> <<"M", "a", "i", "n", "t", "e", "n", "a", "n", "c", "e", " ", "E", "x", "p", "e", "n", "s", "e">>]
  ELSE [id |-> <<"5", "0", "0", "2">>, name |-> <<"R", "e", "n", "t", " ", "E", "x", "p", "e", "n", "s", "e", " ", "(", "G", "a", "r", "a", "g", "e", ")">>]

\* The credit line of an expense: Accounts Payable or Bank.
expenseCredit(contraAccount, absAmount) ==
  IF contraAccount = <<"2", "0", "0", "0">>
  THEN JournalLine(<<"2", "0", "0", "0">>, <<"A", "c", "c", "o", "u", "n", "t", "s", " ", "P", "a", "y", "a", "b", "l", "e">>, Zero, absAmount)
  ELSE JournalLine(<<"1", "0", "0", "2">>, <<"B", "a", "n", "k", " ", "B", "C", "A">>, Zero, absAmount)

\* The Expense branch.
expenseLines(tx, absAmount) ==
  << JournalLine(expenseAccount(tx.description).id, expenseAccount(tx.description).name,
                 absAmount, Zero),
     expenseCredit(tx.contraAccount, absAmount) >>

\* assetLines with the Bank line posted on the debit side.
assetLines_debitBank(absAmount) ==
  << JournalLine(<<"1", "2", "0", "0">>, <<"M", "o", "t", "o", "r", "c", "y", "c", "l", "e", " ", "F", "l", "e", "e", "t", " ", "I", "n", "v", "e", "n", "t", "o", "r", "y">>, absAmount, Zero),
     JournalLine(<<"1", "0", "0", "2">>, <<"B", "a", "n", "k", " ", "B", "C", "A">>, absAmount, Zero) >>

\* assetLines with the credit line pushed first.
assetLines_creditFirst(absAmount) ==
  << JournalLine(<<"1", "0", "0", "2">>, <<"B", "a", "n", "k", " ", "B", "C", "A">>, Zero, absAmount),
     JournalLine(<<"1", "2", "0", "0">>, <<"M", "o", "t", "o", "r", "c", "y", "c", "l", "e", " ", "F", "l", "e", "e", "t", " ", "I", "n", "v", "e", "n", "t", "o", "r", "y">>, absAmount, Zero) >>

\* The Asset branch: debit Fleet Inventory, credit Bank.
assetLines(absAmount) ==
  << JournalLine(<<"1", "2", "0", "0">>, <<"M", "o", "t", "o", "r", "c", "y", "c", "l", "e", " ", "F", "l", "e", "e", "t", " ", "I", "n", "v", "e", "n", "t", "o", "r", "y">>, absAmount, Zero),
     JournalLine(<<"1", "0", "0", "2">>, <<"B", "a", "n", "k", " ", "B", "C", "A">>, Zero, absAmount) >>

\* deriveLines with a plain else for the last branch: every other category
\* posts as an asset purchase.
deriveLines_elseAsset(tx) ==
  IF tx.category = "Revenue" THEN revenueLines(abs(tx.amount))
  ELSE IF tx.category = "Expense" THEN expenseLines(tx, abs(tx.amount))
  ELSE assetLines(abs(tx.amount))

\* The if / else-if chain over tx.category; no branch for any other category.
deriveLines(tx) ==
  IF tx.category = "Revenue" THEN revenueLines(abs(tx.amount))
  ELSE IF tx.category = "Expense" THEN expenseLines(tx, abs(tx.amount))
  ELSE IF tx.category = "Asset" THEN assetLines(abs(tx.amount))
  ELSE << >>

\* The body of the map callback with a journal id of its own: the entry does
\* not carry the id of its transaction.
deriveEntry_journalId(tx) ==
  [id |-> <<"J", "E", "-">> \o tx.id, date |-> tx.date, reference |-> tx.reference,
   description |-> tx.description, lines |-> deriveLines(tx)]

\* The body of transactions.map(tx => ...) in systemJournalEntries.
deriveEntry(tx) ==
  [id |-> tx.id, date |-> tx.date, reference |-> tx.reference,
   description |-> tx.description, lines |-> deriveLines(tx)]

deriveAll(txs) == [i \in 1..Len(txs) |-> deriveEntry(txs[i])]

systemJournalEntries == deriveAll(transactions)

\* new Date(s).getTime() for the date-only ISO form YYYY-MM-DD, in days since
\* 1970-01-01 (the value in milliseconds is 86400000 times this); NaN for any
\* other text.
isLeap(y) == (y % 4 = 0 /\ y % 100 # 0) \/ y % 400 = 0

daysInMonth(y, m) ==
  IF m = 2 THEN (IF isLeap(y) THEN 29 ELSE 28)
  ELSE IF m \in {4, 6, 9, 11} THEN 30 ELSE 31

daysFromCivil(y, m, d) ==
  LET yy  == IF m <= 2 THEN y - 1 ELSE y
      era == yy \div 400
      yoe == yy - era * 400
      mp  == IF m > 2 THEN m - 3 ELSE m + 9
      doy == (153 * mp + 2) \div 5 + d - 1
      doe == yoe * 365 + yoe \div 4 - yoe \div 100 + doy
  IN era * 146097 + doe - 719468

getTime(s) ==
  IF /\ Len(s) = 10
     /\ s[5] = "-" /\ s[8] = "-"
     /\ \A i \in {1, 2, 3, 4, 6, 7, 9, 10} : IsDigit(s[i])
  THEN LET y == digitsValue(SubSeq(s, 1, 4))
           m == digitsValue(SubSeq(s, 6, 7))
           d == digitsValue(SubSeq(s, 9, 10))
       IN IF m \in 1..12 /\ d \in 1..daysInMonth(y, m)
          THEN Num(daysFromCivil(y, m, d)) ELSE NaN
  ELSE NaN

\* The comparator (a, b) => getTime(b.date) - getTime(a.date); sort reads a NaN
\* result as 0.
compareByDate(a, b) ==
  LET v == Sub(getTime(b.date), getTime(a.date))
  IN IF isNaN(v) THEN 0 ELSE v.m

\* Array.prototype.sort is stable: an entry goes after every entry that does
\* not compare greater than it.  With unparsable dates the comparator is not a
\* consistent order and the engine's result order is implementation-defined;
\* the multiset of entries is not.
RECURSIVE insertSorted(_, _)
insertSorted(sorted, x) ==
  IF sorted = <<>> THEN <<x>>
  ELSE IF compareByDate(Head(sorted), x) <= 0
       THEN <<Head(sorted)>> \o insertSorted(Tail(sorted), x)
       ELSE <<x>> \o sorted

RECURSIVE sortByDate(_)
sortByDate(entries) ==
  IF entries = <<>> THEN <<>>
  ELSE insertSorted(sortByDate(SubSeq(entries, 1, Len(entries) - 1)), entries[Len(entries)])

combineEntries(uploaded, system) == sortByDate(uploaded \o system)

allJournalEntries == combineEntries(uploadedEntries, systemJournalEntries)

\* statementLines with revenue read from the debit side.
RECURSIVE statementLines_debitRevenue(_, _)
statementLines_debitRevenue(lines, acc) ==
  IF lines = <<>> THEN acc
  ELSE LET line == Head(lines)
           r == IF line.accountId = <<"4", "0", "0", "0">> THEN Add(acc.revenue, line.debit) ELSE acc.revenue
           c == IF line.accountId = <<"5", "0", "0", "1">> THEN Add(acc.cogs, line.debit) ELSE acc.cogs
           o == IF line.accountId = <<"5", "0", "0", "2">> THEN Add(acc.opex, line.debit) ELSE acc.opex
       IN statementLines_debitRevenue(Tail(lines), [revenue |-> r, cogs |-> c, opex |-> o])

\* incomeStatement: the two nested forEach loops over entries and lines.
RECURSIVE statementLines(_, _)
statementLines(lines, acc) ==
  IF lines = <<>> THEN acc
  ELSE LET line == Head(lines)
           r == IF line.accountId = <<"4", "0", "0", "0">> THEN Add(acc.revenue, line.credit) ELSE acc.revenue
           c == IF line.accountId = <<"5", "0", "0", "1">> THEN Add(acc.cogs, line.debit) ELSE acc.cogs
           o == IF line.accountId = <<"5", "0", "0", "2">> THEN Add(acc.opex, line.debit) ELSE acc.opex
       IN statementLines(Tail(lines), [revenue |-> r, cogs |-> c, opex |-> o])

RECURSIVE statementEntries(_, _)
statementEntries(entries, acc) ==
  IF entries = <<>> THEN acc
  ELSE statementEntries(Tail(entries), statementLines(Head(entries).lines, acc))

aggregate(entries) ==
  LET t == statementEntries(entries, [revenue |-> Zero, cogs |-> Zero, opex |-> Zero])
  IN [revenue |-> t.revenue, cogs |-> t.cogs, opex |-> t.opex,
      netIncome |-> Sub(Sub(t.revenue, t.cogs), t.opex)]

incomeStatement == aggregate(allJournalEntries)

(***************************************************************************)
(* AccountingView: the raw journal import, grouped by reference            *)
(***************************************************************************)
\* str.replace(/[^0-9.-]+/g, "")
keepNumeric(str) == SelectSeq(str, LAMBDA c : IsDigit(c) \/ c \in {".", "-"})

cleanNumber(str) == OrZero(parseFloat(keepNumeric(str)))

\* Smart account mapping of the raw import, from the quote-free description.
mapAccount(desc) ==
  LET d == toLowerCase(desc)
  IN IF includes(d, <<"r", "e", "v", "e", "n", "u", "e">>) \/ includes(d, <<"s", "a", "l", "e", "s">>) THEN <<"4", "0", "0", "0">>
     ELSE IF includes(d, <<"b", "a", "n", "k">>) \/ includes(d, <<"b", "c", "a">>) THEN <<"1", "0", "0", "2">>
     ELSE IF includes(d, <<"c", "a", "s", "h">>) THEN <<"1", "0", "0", "1">>
     ELSE IF includes(d, <<"m", "a", "i", "n", "t", "e", "n", "a", "n", "c", "e">>) \/ includes(d, <<"s", "e", "r", "v", "i", "c", "e">>) THEN <<"5", "0", "0", "1">>
     ELSE IF includes(d, <<"r", "e", "n", "t">>) /\ includes(d, <<"e", "x", "p", "e", "n", "s", "e">>) THEN <<"5", "0", "0", "2">>
     ELSE <<"9", "9", "9", "9">>

\* tempGroups is a plain object literal: a reference that names a property of
\* Object.prototype reads as an existing (truthy) value without a lines array,
\* and the push on it throws.
ObjectPrototypeKeys ==
  { <<"c", "o", "n", "s", "t", "r", "u", "c", "t", "o", "r">>, <<"t", "o", "S", "t", "r", "i", "n", "g">>, <<"v", "a", "l", "u", "e", "O", "f">>, <<"t", "o", "L", "o", "c", "a", "l", "e", "S", "t", "r", "i", "n", "g">>, <<"h", "a", "s", "O", "w", "n", "P", "r", "o", "p", "e", "r", "t", "y">>,
    <<"i", "s", "P", "r", "o", "t", "o", "t", "y", "p", "e", "O", "f">>, <<"p", "r", "o", "p", "e", "r", "t", "y", "I", "s", "E", "n", "u", "m", "e", "r", "a", "b", "l", "e">>, <<"_", "_", "p", "r", "o", "t", "o", "_", "_">>, <<"_", "_", "d", "e", "f", "i", "n", "e", "G", "e", "t", "t", "e", "r", "_", "_">>,
    <<"_", "_", "d", "e", "f", "i", "n", "e", "S", "e", "t", "t", "e", "r", "_", "_">>, <<"_", "_", "l", "o", "o", "k", "u", "p", "G", "e", "t", "t", "e", "r", "_", "_">>, <<"_", "_", "l", "o", "o", "k", "u", "p", "S", "e", "t", "t", "e", "r", "_", "_">> }

\* Property keys that are canonical array indices (0 .. 2^32 - 2) are
\* enumerated first, in ascending numeric order, by Object.values.
RECURSIVE lexLess(_, _)
lexLess(a, b) ==
  IF a = <<>> \/ b = <<>> THEN FALSE
  ELSE IF Head(a) # Head(b) THEN DigitVal(Head(a)) < DigitVal(Head(b))
       ELSE lexLess(Tail(a), Tail(b))

numericLess(a, b) == Len(a) < Len(b) \/ (Len(a) = Len(b) /\ lexLess(a, b))

isArrayIndex(key) ==
  /\ key # <<>>
  /\ \A i \in 1..Len(key) : IsDigit(key[i])
  /\ (Head(key) = "0" => Len(key) = 1)
  /\ numericLess(key, <<"4", "2", "9", "4", "9", "6", "7", "2", "9", "5">>)

RECURSIVE insertByKey(_, _)
insertByKey(sorted, g) ==
  IF sorted = <<>> THEN <<g>>
  ELSE IF numericLess(g.reference, Head(sorted).reference)
       THEN <<g>> \o sorted
       ELSE <<Head(sorted)>> \o insertByKey(Tail(sorted), g)

RECURSIVE sortByKey(_)
sortByKey(groups) ==
  IF groups = <<>> THEN <<>> ELSE insertByKey(sortByKey(Tail(groups)), Head(groups))

\* Object.values(tempGroups), tempGroups given in insertion order.
objectValues(groups) ==
  sortByKey(SelectSeq(groups, LAMBDA g : isArrayIndex(g.reference)))
    \o SelectSeq(groups, LAMBDA g : ~isArrayIndex(g.reference))

\* One pass of the loop body over lines[i .. ], i 1-based here (the source's
\* i is one less).  st.groups is tempGroups in insertion order, st.thrown is
\* set when the body throws; rnd[k] is the Math.random suffix of the k-th
\* group created.
RECURSIVE groupRows(_, _, _, _)
groupRows(lines, i, st, rnd) ==
  LET push(groups, ref, line) ==
        [k \in 1..Len(groups) |->
           IF groups[k].reference = ref
           THEN [groups[k] EXCEPT !.lines = Append(@, line)]
           ELSE groups[k]]
      fresh(date, ref) ==
        [id |-> <<"C", "S", "V", "-">> \o ref \o <<"-">> \o rnd[Len(st.groups) + 1],
         date |-> date, reference |-> ref,
         description |-> <<"I", "m", "p", "o", "r", "t", "e", "d", " ", "T", "r", "a", "n", "s", "a", "c", "t", "i", "o", "n">>, lines |-> <<>>]
      group(date, ref) ==
        IF \E k \in 1..Len(st.groups) : st.groups[k].reference = ref
        THEN st.groups
        ELSE Append(st.groups, fresh(date, ref))
      post(date, ref, line) ==
        IF ref \in ObjectPrototypeKeys
        THEN [st EXCEPT !.thrown = TRUE]
        ELSE groupRows(lines, i + 1,
                       [st EXCEPT !.groups = push(group(date, ref), ref, line)], rnd)
      entry(date, ref, desc, debit, credit) ==
        post(date, ref, JournalLine(mapAccount(desc), desc, debit, credit))
      columns(row, cols) ==
        IF row = <<>> \/ Len(cols) < 5 THEN groupRows(lines, i + 1, st, rnd)
        ELSE entry(cols[1], cols[2], removeAll(cols[3], {"\""}),
                   cleanNumber(cols[4]), cleanNumber(cols[5]))
      trimmed(raw) == [k \in 1..Len(raw) |-> trim(raw[k])]
      body(row) == columns(row, trimmed(split(row, ",")))
  IN IF i > Len(lines) \/ st.thrown THEN st ELSE body(trim(lines[i]))

\* AccountingView.parseCSV up to the state update: the new entries, and
\* whether the try block threw.
AccountingView_parseCSV(csvText, rnd) ==
  LET result(st) ==
        [newEntries |-> IF st.thrown THEN <<>> ELSE objectValues(st.groups),
         thrown |-> st.thrown]
  IN result(groupRows(split(csvText, "\n"), 2, [groups |-> <<>>, thrown |-> FALSE], rnd))

\* setUploadedEntries(prev => [...prev, ...newEntries])
setUploadedEntries(prev, newEntries) == prev \o newEntries

(***************************************************************************)
(* TransactionManager: currency parser, delimiter detection, row splitter  *)
(***************************************************************************)
\* clean.replace(/^(Rp\.?|IDR|USD)\s?/i, '')
stripCurrencySymbol(clean) ==
  LET symbol(low) == IF startsWith(low, <<"r", "p", ".">>) THEN 3
                     ELSE IF startsWith(low, <<"r", "p">>) THEN 2
                     ELSE IF startsWith(low, <<"i", "d", "r">>) \/ startsWith(low, <<"u", "s", "d">>) THEN 3
                     ELSE 0
      space(n) == IF n > 0 /\ Len(clean) > n /\ clean[n + 1] \in WhiteSpace THEN 1 ELSE 0
      strip(n) == SubSeq(clean, n + space(n) + 1, Len(clean))
  IN strip(symbol(toLowerCase(clean)))

\* Step 4 that reads every text in the US convention: commas are removed
\* and a dot is the decimal point.
resolveSeparators_usOnly(clean) == removeAll(clean, {","})

\* Step 4 of parseCurrency: Indonesian against US separators.
resolveSeparators(clean) ==
  IF indexOf(clean, <<",">>) > -1 /\ indexOf(clean, <<".">>) > -1
  THEN IF lastIndexOf(clean, <<",">>) > lastIndexOf(clean, <<".">>)
       THEN replaceFirst(removeAll(clean, {"."}), ",", <<".">>)
       ELSE removeAll(clean, {","})
  ELSE IF indexOf(clean, <<",">>) > -1
  THEN LET parts == split(clean, ",")
       IN IF Len(parts) > 1 /\ Len(parts[Len(parts)]) = 3
          THEN removeAll(clean, {","})
          ELSE replaceFirst(clean, ",", <<".">>)
  ELSE IF indexOf(clean, <<".">>) > -1
  THEN removeAll(clean, {"."})
  ELSE clean

\* 1. Parentheses for a negative: "(50.000)".
isParentheses(clean) == startsWith(clean, <<"(">>) /\ endsWith(clean, <<")">>)

stripParentheses(clean) ==
  IF isParentheses(clean) THEN SubSeq(clean, 2, Len(clean) - 1) ELSE clean

\* 3. The explicit negative sign.
stripSign(clean) == IF startsWith(clean, <<"-">>) THEN Tail(clean) ELSE clean

\* The return of parseCurrency without the isNaN guard.
signedValue_unguarded(isNegative, parsed) ==
  IF isNegative THEN Neg(parsed) ELSE parsed

\* if (isNaN(val)) return 0; return isNegative ? -val : val
signedValue(isNegative, parsed) ==
  IF isNaN(parsed) THEN Zero
  ELSE IF isNegative THEN Neg(parsed) ELSE parsed

\* parseCurrency: clean is the text after steps 1 and 2.
parseCurrency(str) ==
  IF str = <<>> THEN Zero
  ELSE LET clean == removeAll(stripCurrencySymbol(stripParentheses(trim(str))), WhiteSpace)
       IN signedValue(isParentheses(trim(str)) \/ startsWith(clean, <<"-">>),
                      parseFloat(SelectSeq(resolveSeparators(stripSign(clean)),
                                           LAMBDA c : IsDigit(c) \/ c = ".")))

detectDelimiter(text) ==
  LET pick(tabs, semicolons, commas) ==
        IF tabs > commas /\ tabs > semicolons THEN "\t"
        ELSE IF semicolons > commas THEN ";"
        ELSE ","
      header(line) == pick(count(line, "\t"), count(line, ";"), count(line, ","))
      detect(lines) == IF Len(lines) < 2 THEN "," ELSE header(lines[1])
  IN detect(split(text, "\n"))

\* The loop of splitCSVLine from 1-based position i, with the fields pushed
\* so far, the field being read and the quote mode.
RECURSIVE splitLoop(_, _, _, _, _, _)
splitLoop(line, delimiter, i, result, current, inQuotes) ==
  IF i > Len(line) THEN Append(result, trim(current))
  ELSE
    LET char == line[i]
    IN IF char = "\""
       THEN IF inQuotes /\ i < Len(line) /\ line[i + 1] = "\""
            THEN splitLoop(line, delimiter, i + 2, result, Append(current, "\""), inQuotes)
            ELSE splitLoop(line, delimiter, i + 1, result, current, ~inQuotes)
       ELSE IF char = delimiter /\ ~inQuotes
            THEN splitLoop(line, delimiter, i + 1, Append(result, trim(current)), <<>>, inQuotes)
            ELSE splitLoop(line, delimiter, i + 1, result, Append(current, char), inQuotes)

\* splitCSVLine that ignores quotes: the line is cut at every delimiter.
splitCSVLine_plain(line, delimiter) ==
  [k \in 1..Len(split(line, delimiter)) |-> trim(split(line, delimiter)[k])]

splitCSVLine(line, delimiter) == splitLoop(line, delimiter, 1, <<>>, <<>>, FALSE)

(***************************************************************************)
(* TransactionManager: the CSV import                                      *)
(***************************************************************************)
\* getIdx that takes the last matching header column instead of the first.
getIdx_lastMatch(headers, keywords) ==
  LET hits == {i \in 1..Len(headers) : \E k \in keywords : includes(headers[i], k)}
  IN IF hits = {} THEN -1 ELSE (CHOOSE i \in hits : \A j \in hits : i >= j) - 1

\* headers.findIndex(h => keywords.some(k => h.includes(k))), 0-based, -1 when
\* no header matches.
getIdx(headers, keywords) ==
  LET hits == {i \in 1..Len(headers) : \E k \in keywords : includes(headers[i], k)}
  IN IF hits = {} THEN -1 ELSE (CHOOSE i \in hits : \A j \in hits : i <= j) - 1

inferColumns(headers) ==
  [idxDate   |-> getIdx(headers, {<<"d", "a", "t", "e">>, <<"t", "a", "n", "g", "g", "a", "l">>, <<"t", "g", "l">>}),
   idxRef    |-> getIdx(headers, {<<"r", "e", "f">>, <<"n", "o", "m", "o", "r">>, <<"n", "o", ".">>, <<"c", "o", "d", "e">>}),
   idxDesc   |-> getIdx(headers, {<<"d", "e", "s", "c", "r", "i", "p", "t", "i", "o", "n">>, <<"d", "e", "s", "k", "r", "i", "p", "s", "i">>, <<"k", "e", "t", "e", "r", "a", "n", "g", "a", "n">>,
                                  <<"a", "c", "c", "o", "u", "n", "t">>, <<"a", "k", "u", "n">>}),
   idxDebit  |-> getIdx(headers, {<<"d", "e", "b", "i", "t">>, <<"m", "a", "s", "u", "k">>}),
   idxCredit |-> getIdx(headers, {<<"c", "r", "e", "d", "i", "t">>, <<"k", "r", "e", "d", "i", "t">>, <<"k", "e", "l", "u", "a", "r">>}),
   idxAmount |-> getIdx(headers, {<<"a", "m", "o", "u", "n", "t">>, <<"j", "u", "m", "l", "a", "h">>, <<"n", "i", "l", "a", "i">>, <<"t", "o", "t", "a", "l">>})]

\* const val = (idx) => idx >= 0 && idx < cols.length ? cols[idx] : ''
val(cols, idx) == IF idx >= 0 /\ idx < Len(cols) THEN cols[idx + 1] ELSE <<>>

\* Step 4 with the two columns exchanged: a debit is income, a credit is an
\* expense.
debitCredit_debitIncome(debit, credit) ==
  IF Gt0(debit) THEN [finalAmount |-> debit, category |-> "Revenue"]
  ELSE IF Gt0(credit) THEN [finalAmount |-> Neg(credit), category |-> "Expense"]
  ELSE [finalAmount |-> Zero, category |-> "Revenue"]

\* Step 4 of the loop body: finalAmount and category before the sign rule.
debitCredit(debit, credit) ==
  IF Gt0(credit) THEN [finalAmount |-> credit, category |-> "Revenue"]
  ELSE IF Gt0(debit) THEN [finalAmount |-> Neg(debit), category |-> "Expense"]
  ELSE [finalAmount |-> Zero, category |-> "Revenue"]

calculateAmount(cols, idx) ==
  IF idx.idxDebit >= 0 /\ idx.idxCredit >= 0
  THEN debitCredit(parseCurrency(val(cols, idx.idxDebit)),
                   parseCurrency(val(cols, idx.idxCredit)))
  ELSE IF idx.idxAmount >= 0
  THEN [finalAmount |-> parseCurrency(val(cols, idx.idxAmount)), category |-> "Revenue"]
  ELSE IF Len(cols) >= 5
  THEN debitCredit(parseCurrency(cols[4]), parseCurrency(cols[5]))
  ELSE IF Len(cols) = 4
  THEN [finalAmount |-> parseCurrency(cols[4]), category |-> "Revenue"]
  ELSE [finalAmount |-> Zero, category |-> "Revenue"]

\* "Determine Category from Description if Amount is negative"
determineCategory(finalAmount, category, desc) ==
  LET lowerDesc == toLowerCase(desc)
  IN IF Lt0(finalAmount)
     THEN IF \/ includes(lowerDesc, <<"a", "s", "s", "e", "t">>) \/ includes(lowerDesc, <<"a", "s", "e", "t">>)
             \/ includes(lowerDesc, <<"m", "o", "t", "o", "r">>) \/ includes(lowerDesc, <<"u", "n", "i", "t">>)
          THEN "Asset" ELSE "Expense"
     ELSE IF Gt0(finalAmount) THEN "Revenue"
     ELSE category

\* new Date().toISOString().split('T')[0] : the clock of the model moves by
\* milliseconds within one day.
todayISO == <<"2", "0", "2", "4", "-", "0", "6", "-", "1", "0">>

\* if (!field && cols.length > k) field = cols[k]
fallback(field, cols, k) == IF field = <<>> /\ Len(cols) > k THEN cols[k + 1] ELSE field

\* The end of the loop body that keeps a row only for its amount: a row with
\* a description and a zero amount is dropped.
pushIfMeaningful_amountOnly(i, stamp, date, ref, desc, calc) ==
  IF calc.finalAmount # Zero
  THEN << [id |-> <<"T", "X", "-", "C", "S", "V", "-">> \o toString(stamp) \o <<"-">> \o toString(i),
           date |-> IF date = <<>> THEN todayISO ELSE date,
           reference |-> IF ref = <<>> THEN <<"C", "S", "V", "-">> \o toString(i) ELSE ref,
           description |-> IF desc = <<>> THEN <<"I", "m", "p", "o", "r", "t", "e", "d", " ", "T", "r", "a", "n", "s", "a", "c", "t", "i", "o", "n">> ELSE desc,
           category |-> determineCategory(calc.finalAmount, calc.category, desc),
           amount |-> calc.finalAmount,
           contraAccount |-> <<"1", "0", "0", "2">>] >>
  ELSE << >>

\* The end of the loop body for row i: the category, and the transaction
\* pushed "only if meaningful"; calc is the amount and category of step 4,
\* stamp is Date.now().  The result is what the row pushes: nothing or one
\* transaction.
pushIfMeaningful(i, stamp, date, ref, desc, calc) ==
  IF calc.finalAmount # Zero \/ desc # <<>>
  THEN << [id |-> <<"T", "X", "-", "C", "S", "V", "-">> \o toString(stamp) \o <<"-">> \o toString(i),
           date |-> IF date = <<>> THEN todayISO ELSE date,
           reference |-> IF ref = <<>> THEN <<"C", "S", "V", "-">> \o toString(i) ELSE ref,
           description |-> IF desc = <<>> THEN <<"I", "m", "p", "o", "r", "t", "e", "d", " ", "T", "r", "a", "n", "s", "a", "c", "t", "i", "o", "n">> ELSE desc,
           category |-> determineCategory(calc.finalAmount, calc.category, desc),
           amount |-> calc.finalAmount,
           contraAccount |-> <<"1", "0", "0", "2">>] >>
  ELSE << >>

\* The loop body for the data row lines[i] (i is the source's 0-based index,
\* the header being lines[0]); stamp is Date.now() at that row.  The result
\* is the sequence of transactions the row pushes: empty or one.
materializeRow(line, i, delimiter, idx, stamp) ==
  LET cols == splitCSVLine(line, delimiter)
  IN pushIfMeaningful(i, stamp,
                      fallback(val(cols, idx.idxDate), cols, 0),
                      fallback(val(cols, idx.idxRef), cols, 1),
                      fallback(val(cols, idx.idxDesc), cols, 2),
                      calculateAmount(cols, idx))

RECURSIVE materializeRows(_, _, _, _, _)
materializeRows(lines, i, delimiter, idx, stamps) ==
  IF i >= Len(lines) THEN << >>
  ELSE materializeRow(lines[i + 1], i, delimiter, idx, stamps[i])
         \o materializeRows(lines, i + 1, delimiter, idx, stamps)

\* csvText.split('\n').filter(l => l.trim().length > 0)
nonBlankLines(csvText) == SelectSeq(split(csvText, "\n"), LAMBDA l : trim(l) # <<>>)

\* The end of parseCSV: the batch handed to onAddBatchTransactions and the
\* alert shown.
importResult(delimiter, newTransactions) ==
  IF Len(newTransactions) > 0
  THEN [newTransactions |-> newTransactions,
        alert |-> [kind |-> "Import Successful", delimiter |-> delimiter,
                   parsedCount |-> Len(newTransactions),
                   revCount |-> Len(SelectSeq(newTransactions, LAMBDA t : Gt0(t.amount))),
                   expCount |-> Len(SelectSeq(newTransactions, LAMBDA t : ~Gt0(t.amount)))]]
  ELSE [newTransactions |-> << >>, alert |-> [kind |-> "No valid data found"]]

\* TransactionManager.parseCSV up to its effects: the transactions handed to
\* onAddBatchTransactions and the alert shown.  stamps[i] is Date.now() when
\* row i is pushed.
TransactionManager_parseCSV(csvText, stamps) ==
  LET lines == nonBlankLines(csvText)
      delimiter == detectDelimiter(csvText)
      headers == LET h == splitCSVLine(lines[1], delimiter)
                 IN [k \in 1..Len(h) |-> toLowerCase(h[k])]
  IN IF Len(lines) = 0
     THEN [newTransactions |-> << >>, alert |-> [kind |-> "none"]]
     ELSE importResult(delimiter,
                       materializeRows(lines, 1, delimiter, inferColumns(headers), stamps))

(***************************************************************************)
(* TransactionManager: the entry form; App: the transaction store          *)
(***************************************************************************)
\* The Transaction of handleSubmit with the amount stored as entered,
\* whatever the category.
newTx_unsigned(formData, clock, rnd) ==
  [id |-> <<"T", "X", "-">> \o toString(clock),
   date |-> formData.date,
   description |-> formData.description,
   category |-> formData.category,
   amount |-> abs(OrZero(formData.amount)),
   reference |-> IF formData.reference = <<>> THEN <<"R", "E", "F", "-">> \o toString(rnd)
                 ELSE formData.reference,
   contraAccount |-> formData.contraAccount]

\* The Transaction handleSubmit builds from the form: now is Date.now(), rnd
\* is Math.floor(Math.random() * 1000).
newTx(formData, clock, rnd) ==
  [id |-> <<"T", "X", "-">> \o toString(clock),
   date |-> formData.date,
   description |-> formData.description,
   category |-> formData.category,
   amount |-> IF formData.category = "Expense" \/ formData.category = "Asset"
              THEN Neg(abs(OrZero(formData.amount)))
              ELSE abs(OrZero(formData.amount)),
   reference |-> IF formData.reference = <<>> THEN <<"R", "E", "F", "-">> \o toString(rnd)
                 ELSE formData.reference,
   contraAccount |-> formData.contraAccount]

\* setTransactions(prev => [newTx, ...prev])
handleAddTransaction(prev, tx) == <<tx>> \o prev

\* handleAddBatchTransactions that replaces the store by the batch.
handleAddBatchTransactions_replace(prev, newTxs) == newTxs

\* handleAddBatchTransactions that surfaces the batch row by row and stops
\* after the first row.
handleAddBatchTransactions_firstRow(prev, newTxs) == <<Head(newTxs)>> \o prev

\* setTransactions(prev => [...newTxs, ...prev])
handleAddBatchTransactions(prev, newTxs) == newTxs \o prev

(***************************************************************************)
(* Bounds and inputs                                                       *)
(***************************************************************************)
\* The most work a run takes on: a form submission or a file upload starts
\* only while the transactions added, the entries uploaded and the loads in
\* flight number fewer than MaxWork.  A load that has started always ends.
MaxWork == 2

\* The clock is read by the form (once) and by the import (once for each
\* row); it stops at MaxClock.
MaxClock == 1

FormData(date, description, category, amount, reference, contraAccount) ==
  [date |-> date, description |-> description, category |-> category, amount |-> amount,
   reference |-> reference, contraAccount |-> contraAccount]

\* What the form can hold at submit: the category select offers Revenue,
\* Expense and Asset; the number input yields parseFloat of its text (NaN
\* when empty); the contra select offers 1002, 1001 and 2000.
FormInputs ==
  { FormData(<<"2", "0", "2", "4", "-", "0", "6", "-", "0", "7">>, <<"R", "e", "n", "t", "a", "l", " ", "I", "n", "c", "o", "m", "e">>, "Revenue", Num(250000), <<>>, <<"1", "0", "0", "2">>),
    FormData(<<"2", "0", "2", "4", "-", "0", "6", "-", "0", "7">>, <<"D", "e", "p", "o", "s", "i", "t">>, "Revenue", NaN, <<"R", "-", "1">>, <<"2", "0", "0", "0">>),
    FormData(<<"2", "0", "2", "4", "-", "0", "6", "-", "0", "8">>, <<"M", "A", "I", "N", "T", "E", "N", "A", "N", "C", "E">>, "Expense", [m |-> 5, e |-> 1], <<"R", "-", "2">>, <<"1", "0", "0", "1">>),
    FormData(<<>>, <<"N", "e", "w", " ", "U", "n", "i", "t">>, "Asset", Num(7000000), <<"R", "-", "3">>, <<"1", "0", "0", "1">>) }

RandomRefs == {7, 999}

RandomSuffixes == {<<"k", "3", "x", "9", "q">>, <<"0", "a", "7", "z", "z">>}

\* Texts handed to the TransactionManager import.
TransactionTexts ==
  { <<"d", "a", "t", "e", ",", "r", "e", "f", ",", "d", "e", "s", "c", "r", "i", "p", "t", "i", "o", "n", ",", "d", "e", "b", "i", "t", ",", "c", "r", "e", "d", "i", "t", "\n", "2", "0", "2", "4", "-", "0", "6", "-", "0", "1", ",", "I", "N", "V", "-", "1", "0", "0", "1", ",", "R", "e", "n", "t", "a", "l", " ", "I", "n", "c", "o", "m", "e", ",", ",", "4", "5", "0", "0", "0", "0">>,
    <<"T", "a", "n", "g", "g", "a", "l", ";", "N", "o", "m", "o", "r", ";", "K", "e", "t", "e", "r", "a", "n", "g", "a", "n", ";", "J", "u", "m", "l", "a", "h", "\n", "2", "0", "2", "4", "-", "0", "6", "-", "0", "8", ";", "B", "-", "7", ";", "B", "e", "l", "i", " ", "M", "o", "t", "o", "r", ";", "(", "1", ".", "5", "0", "0", ".", "0", "0", "0", ",", "0", "0", ")", "\n", "2", "0", "2", "4", "-", "0", "6", "-", "0", "9", ";", ";", "S", "e", "w", "a", ";", "R", "p", " ", "5", "0", ".", "0", "0", "0">>,
    <<"a", ",", "b", ",", "c", ",", "d", ",", "e", "\n", "2", "0", "2", "4", "-", "0", "6", "-", "1", "1", ",", "X", "1", ",", "P", "a", "r", "t", "s", ",", "\"", "1", ",", "0", "0", "0", "\"", ",", "0", "\n", ",", ",", ",", ",", "\n", "s", "h", "o", "r", "t", ",", "r", "o", "w", "\n", ",", ",", "N", "o", "t", "e", ",", "0", ",", "0">>,
    <<"\n", "\n">> }

\* Texts handed to the raw journal import of AccountingView.
JournalTexts ==
  { <<"D", "a", "t", "e", ",", "R", "e", "f", ",", "A", "c", "c", "o", "u", "n", "t", ",", "D", "e", "b", "i", "t", ",", "C", "r", "e", "d", "i", "t", "\n", "2", "0", "2", "4", "-", "0", "6", "-", "0", "1", ",", "J", "-", "1", ",", "B", "a", "n", "k", " ", "B", "C", "A", ",", "4", "5", "0", "0", "0", "0", ",", "0", "\n", "2", "0", "2", "4", "-", "0", "6", "-", "0", "1", ",", "J", "-", "1", ",", "R", "e", "n", "t", "a", "l", " ", "R", "e", "v", "e", "n", "u", "e", ",", "0", ",", "4", "5", "0", "0", "0", "0">>,
    <<"D", "a", "t", "e", ",", "R", "e", "f", ",", "A", "c", "c", "o", "u", "n", "t", ",", "D", "e", "b", "i", "t", ",", "C", "r", "e", "d", "i", "t", "\n", "2", "0", "2", "4", "-", "0", "6", "-", "0", "2", ",", "J", "-", "2", ",", "M", "a", "i", "n", "t", "e", "n", "a", "n", "c", "e", ",", "-", "5", "0", "0", ",", "0", "\n", "2", "0", "2", "4", "-", "0", "6", "-", "0", "2", ",", "7", ",", "\"", "R", "e", "n", "t", " ", "E", "x", "p", "e", "n", "s", "e", "\"", ",", "R", "p", " ", "1", ".", "5", ",", "0">>,
    <<"D", "a", "t", "e", ",", "R", "e", "f", ",", "A", "c", "c", "o", "u", "n", "t", ",", "D", "e", "b", "i", "t", ",", "C", "r", "e", "d", "i", "t", "\n", "x", ",", "y", "\n", "\n", "2", "0", "2", "4", "-", "0", "6", "-", "0", "3", ",", "c", "o", "n", "s", "t", "r", "u", "c", "t", "o", "r", ",", "C", "a", "s", "h", ",", "1", ",", "0">> }

(***************************************************************************)
(* The state machine                                                       *)
(***************************************************************************)
work == (Len(transactions) - Len(MOCK_TRANSACTIONS)) + Len(uploadedEntries) + Len(reading)

Init ==
  /\ transactions = MOCK_TRANSACTIONS
  /\ uploadedEntries = <<>>
  /\ now = 0
  /\ reading = <<>>
  /\ alert = [kind |-> "none"]
  /\ lastCall = [fn |-> "none", n |-> 0]
  /\ input = <<>>
  /\ output = <<>>

\* The clock at a reading: the instant of the last reading or a later one.
Instants == {t \in {now, now + 1} : t <= MaxClock}

handleSubmit ==
  \E formData \in FormInputs, rnd \in RandomRefs, clock \in Instants :
    /\ work < MaxWork
    /\ now' = clock
    /\ transactions' = handleAddTransaction(transactions, newTx(formData, clock, rnd))
    /\ lastCall' = [fn |-> "handleAddTransaction", n |-> 1]
    /\ UNCHANGED <<uploadedEntries, reading, alert, input, output>>

\* handleFileUpload of either view: the FileReader starts to load the file.
TransactionManager_handleFileUpload ==
  \E text \in TransactionTexts :
    /\ work < MaxWork
    /\ reading' = Append(reading, [view |-> "TransactionManager", text |-> text])
    /\ UNCHANGED <<transactions, uploadedEntries, now, alert, lastCall, input, output>>

AccountingView_handleFileUpload ==
  \E text \in JournalTexts :
    /\ work < MaxWork
    /\ reading' = Append(reading, [view |-> "AccountingView", text |-> text])
    /\ UNCHANGED <<transactions, uploadedEntries, now, alert, lastCall, input, output>>

removeAt(s, k) == SubSeq(s, 1, k - 1) \o SubSeq(s, k + 1, Len(s))

\* The data rows of a text: its non-blank lines after the header.
dataRows(text) ==
  IF Len(nonBlankLines(text)) = 0 THEN 0 ELSE Len(nonBlankLines(text)) - 1

\* Date.now() at each row, clock being the last reading before the import:
\* the clock may move once, before row tickAt is pushed (tickAt = 0: it does
\* not move).
stampsAt(text, clock, tickAt) ==
  [i \in 1..dataRows(text) |-> IF tickAt # 0 /\ i >= tickAt THEN clock + 1 ELSE clock]

\* parseCSV of TransactionManager on each text, instant and clock movement,
\* worked out once.
TransactionImports ==
  [text \in TransactionTexts |->
     [clock \in 0..MaxClock |->
        [tickAt \in 0..dataRows(text) |->
           TransactionManager_parseCSV(text, stampsAt(text, clock, tickAt))]]]

\* reader.onload of TransactionManager: parseCSV(text).
TransactionManager_onload ==
  \E k \in 1..Len(reading) :
    /\ reading[k].view = "TransactionManager"
    /\ \E tickAt \in 0..dataRows(reading[k].text) :
         LET r == TransactionImports[reading[k].text][now][tickAt]
         IN /\ tickAt # 0 => now < MaxClock
            /\ now' = IF tickAt # 0 THEN now + 1 ELSE now
            /\ IF Len(r.newTransactions) > 0
               THEN /\ transactions' = handleAddBatchTransactions(transactions, r.newTransactions)
                    /\ lastCall' = [fn |-> "handleAddBatchTransactions",
                                    n |-> Len(r.newTransactions)]
               ELSE UNCHANGED <<transactions, lastCall>>
            /\ alert' = IF r.alert.kind = "none" THEN alert ELSE r.alert
    /\ reading' = removeAt(reading, k)
    /\ UNCHANGED <<uploadedEntries, input, output>>

\* The number of groups parseCSV of AccountingView creates on a text: one
\* Math.random suffix is drawn for each.
groupCount(text) ==
  Len(AccountingView_parseCSV(text, [g \in 1..Len(text) |-> <<>>]).newEntries)

\* parseCSV of AccountingView on each text and each draw of suffixes, worked
\* out once.
JournalImports ==
  [text \in JournalTexts |->
     [rnd \in [1..groupCount(text) -> RandomSuffixes] |->
        AccountingView_parseCSV(text, rnd)]]

\* reader.onload of AccountingView: parseCSV(text).
AccountingView_onload ==
  \E k \in 1..Len(reading) :
    /\ reading[k].view = "AccountingView"
    /\ \E rnd \in DOMAIN JournalImports[reading[k].text] :
         LET r == JournalImports[reading[k].text][rnd]
         IN IF r.thrown
            THEN /\ alert' = [kind |-> "Failed to parse CSV"]
                 /\ UNCHANGED uploadedEntries
            ELSE /\ uploadedEntries' = setUploadedEntries(uploadedEntries, r.newEntries)
                 /\ alert' = [kind |-> "Successfully imported", count |-> Len(r.newEntries)]
    /\ reading' = removeAt(reading, k)
    /\ UNCHANGED <<transactions, now, lastCall, input, output>>

Next ==
  \/ handleSubmit
  \/ TransactionManager_handleFileUpload
  \/ TransactionManager_onload
  \/ AccountingView_handleFileUpload
  \/ AccountingView_onload

Spec == Init /\ [][Next]_vars

(***************************************************************************)
(* The derivation applied on its own: deriveEntry over transactions of     *)
(* every category the Transaction type admits.                             *)
(***************************************************************************)
DeriveInputs ==
  { [id |-> id, date |-> <<"2", "0", "2", "4", "-", "0", "6", "-", "0", "7">>, description |-> description, category |-> category,
     amount |-> amount, reference |-> <<"R", "-", "1">>, contraAccount |-> contraAccount] :
      id \in {<<"T", "X", "-", "1">>, <<"T", "X", "-", "C", "S", "V", "-", "0", "-", "1">>},
      description \in {<<"O", "w", "n", "e", "r", " ", "C", "a", "p", "i", "t", "a", "l">>, <<"S", "p", "a", "r", "e", " ", "p", "a", "r", "t", "s">>},
      category \in Categories,
      amount \in {Num(-2500000), Zero, [m |-> 5, e |-> 1]},
      contraAccount \in {Undefined, <<"2", "0", "0", "0">>} }

Pending == [status |-> "pending"]

InitDerive ==
  /\ transactions = MOCK_TRANSACTIONS
  /\ uploadedEntries = <<>>
  /\ now = 0
  /\ reading = <<>>
  /\ alert = [kind |-> "none"]
  /\ lastCall = [fn |-> "none", n |-> 0]
  /\ input \in DeriveInputs
  /\ output = Pending

applyDerive ==
  /\ output = Pending
  /\ output' = [status |-> "done", entry |-> deriveEntry(input)]
  /\ UNCHANGED <<transactions, uploadedEntries, now, reading, alert, lastCall, input>>

NextDerive == applyDerive

SpecDerive == InitDerive /\ [][NextDerive]_vars

(***************************************************************************)
(* Properties                                                              *)
(***************************************************************************)
RECURSIVE sumDebit(_)
sumDebit(lines) == IF lines = <<>> THEN Zero ELSE Add(Head(lines).debit, sumDebit(Tail(lines)))

RECURSIVE sumCredit(_)
sumCredit(lines) == IF lines = <<>> THEN Zero ELSE Add(Head(lines).credit, sumCredit(Tail(lines)))

PostingCategories == {"Revenue", "Expense", "Asset"}

\* The transactions of the store that came from the form / from a CSV import.
FromForm(tx) == startsWith(tx.id, <<"T", "X", "-">>) /\ ~startsWith(tx.id, <<"T", "X", "-", "C", "S", "V", "-">>)

FromCSV(tx) == startsWith(tx.id, <<"T", "X", "-", "C", "S", "V", "-">>)

\* C1: every system-derived entry whose transaction has category Revenue,
\* Expense or Asset is balanced: its debits sum to its credits.
BalanceInvariant ==
  LET entries == systemJournalEntries
  IN \A i \in 1..Len(transactions) :
       transactions[i].category \in PostingCategories
         => sumDebit(entries[i].lines) = sumCredit(entries[i].lines)

\* A form submission and a CSV row are in the store and their entries carry
\* non-zero sums.
BalanceWitness ==
  LET entries == systemJournalEntries
  IN /\ \E i \in 1..Len(transactions) :
          FromForm(transactions[i]) /\ Gt0(sumDebit(entries[i].lines))
     /\ \E i \in 1..Len(transactions) :
          FromCSV(transactions[i]) /\ Gt0(sumCredit(entries[i].lines))

\* C2: every line of every system-derived entry has exactly one of debit and
\* credit equal to zero, whatever the amount of the transaction (zero included).
ExactlyOneSideZero ==
  LET entries == systemJournalEntries
  IN \A i \in 1..Len(entries) :
       \A j \in 1..Len(entries[i].lines) :
         (entries[i].lines[j].debit = Zero) # (entries[i].lines[j].credit = Zero)

\* C3 as stated: every line of the combined journal, system-derived or
\* imported, has a non-negative debit and a non-negative credit.
NonNegativeLines ==
  LET entries == allJournalEntries
  IN \A i \in 1..Len(entries) :
       \A j \in 1..Len(entries[i].lines) :
         Ge0(entries[i].lines[j].debit) /\ Ge0(entries[i].lines[j].credit)

Posting(line) == <<line.accountId, line.debit, line.credit>>

MentionsFolded(text, keyword) ==
  \E i \in 0..(Len(text) - Len(keyword)) :
    \A k \in 1..Len(keyword) : toLowerChar(text[i + k]) = keyword[k]

NoPostingRuleEmptyEntry ==
  (output # Pending /\ input.category \in {"Liability", "Equity"})
    => output.entry = [id |-> input.id, date |-> input.date, reference |-> input.reference,
                       description |-> input.description, lines |-> << >>]

\* The derivation has been applied to a Liability transaction of non-zero
\* amount.
NoPostingRuleWitness ==
  output # Pending /\ input.category = "Liability" /\ input.amount # Zero

\* The lines of a list of entries on one account, as positions <<i, j>>.
LinesOn(entries, accountId) ==
  {p \in UNION {{<<i, j>> : j \in 1..Len(entries[i].lines)} : i \in 1..Len(entries)} :
     entries[p[1]].lines[p[2]].accountId = accountId}

RECURSIVE SumOver(_, _, _)
SumOver(entries, positions, side) ==
  IF positions = {} THEN Zero
  ELSE LET p == CHOOSE q \in positions : TRUE
           line == entries[p[1]].lines[p[2]]
       IN Add(IF side = "debit" THEN line.debit ELSE line.credit,
              SumOver(entries, positions \ {p}, side))

\* C7: the income statement over the combined journal has revenue = the sum
\* of the credits on 4000, costOfGoodsSold = the sum of the debits on 5001,
\* operatingExpense = the sum of the debits on 5002 and netIncome = revenue -
\* costOfGoodsSold - operatingExpense; no other line counts.
AggregateFigures ==
  LET entries == allJournalEntries
      r == SumOver(entries, LinesOn(entries, <<"4", "0", "0", "0">>), "credit")
      c == SumOver(entries, LinesOn(entries, <<"5", "0", "0", "1">>), "debit")
      o == SumOver(entries, LinesOn(entries, <<"5", "0", "0", "2">>), "debit")
      statement == aggregate(entries)
  IN /\ statement.revenue = r
     /\ statement.cogs = c
     /\ statement.opex = o
     /\ statement.netIncome = Sub(Sub(r, c), o)

\* The combined journal holds an imported entry with a non-zero credit on
\* 4000 and a non-zero debit on an account outside the report, next to the
\* system-derived entries.
AggregateWitness ==
  \E i \in 1..Len(uploadedEntries) :
    /\ \E j \in 1..Len(uploadedEntries[i].lines) :
         /\ uploadedEntries[i].lines[j].accountId = <<"4", "0", "0", "0">>
         /\ uploadedEntries[i].lines[j].credit # Zero
    /\ \E j \in 1..Len(uploadedEntries[i].lines) :
         /\ uploadedEntries[i].lines[j].accountId = <<"1", "0", "0", "2">>
         /\ uploadedEntries[i].lines[j].debit # Zero

\* C8 as stated: the report counts no line of an imported entry on top of the
\* system-derived entries: its figures are those of the system-derived
\* journal alone.
NoDoubleCounting == incomeStatement = aggregate(systemJournalEntries)

\* C9 as stated: the transactions of the store have pairwise distinct ids.
UniqueIds ==
  \A i, j \in 1..Len(transactions) : i # j => transactions[i].id # transactions[j].id

\* C10: every step that changes the store is a call of handleAddTransaction
\* or of handleAddBatchTransactions that keeps every stored transaction, as
\* it was and in the same order, and adds exactly one transaction or exactly
\* the batch.
AppendOnly ==
  [][transactions' # transactions =>
       /\ lastCall'.fn \in {"handleAddTransaction", "handleAddBatchTransactions"}
       /\ lastCall'.fn = "handleAddTransaction" => lastCall'.n = 1
       /\ lastCall'.n >= 1
       /\ Len(transactions') = Len(transactions) + lastCall'.n
       /\ SubSeq(transactions', lastCall'.n + 1, Len(transactions')) = transactions]_vars

\* A form submission and then a batch of two rows have been added.
AppendOnlyWitness ==
  /\ lastCall = [fn |-> "handleAddBatchTransactions", n |-> 2]
  /\ Len(transactions) = Len(MOCK_TRANSACTIONS) + 3
  /\ FromForm(transactions[3])

\* C11: the system-derived journal holds exactly one entry for each stored
\* transaction, in the order of the store, and the entry carries the id, the
\* date, the reference and the description of its transaction; deriving again
\* from the same transaction gives the same entry.
OneEntryPerTransaction ==
  LET entries == systemJournalEntries
  IN /\ Len(entries) = Len(transactions)
     /\ \A i \in 1..Len(transactions) :
          /\ entries[i].id = transactions[i].id
          /\ entries[i].date = transactions[i].date
          /\ entries[i].reference = transactions[i].reference
          /\ entries[i].description = transactions[i].description
          /\ entries[i] = deriveEntry(transactions[i])

\* A form submission and a batch of two CSV rows have been appended and the
\* journal holds an entry for each of them.
OneEntryWitness ==
  /\ Len(systemJournalEntries) = Len(MOCK_TRANSACTIONS) + 3
  /\ \E i \in 1..Len(transactions) : FromForm(transactions[i])
  /\ \E i \in 1..Len(transactions) : FromCSV(transactions[i])

(***************************************************************************)
(* parseCurrency applied on its own: the amounts the Import Guide names    *)
(* and every text of at most MaxAmountLen characters over AmountChars.     *)
(***************************************************************************)
MaxAmountLen == 3

AmountChars == {"0", "1", "5", ".", ",", "-", "(", ")", " ", "a", "R", "p"}

CanonicalAmounts ==
  { <<"1", ".", "5", "0", "0", ".", "0", "0", "0", ",", "0", "0">>, <<"1", ",", "5", "0", "0", ",", "0", "0", "0", ".", "0", "0">>, <<"R", "p", " ", "5", "0", ".", "0", "0", "0">>, <<"R", "p", " ", "5", "0", ".", "0", "0", "0", ",", "-">>, <<"(", "5", "0", ".", "0", "0", "0", ")">>, <<"a", "b", "c">> }

AmountInputs ==
  CanonicalAmounts \cup UNION {[1..n -> AmountChars] : n \in 0..MaxAmountLen}

InitCurrency ==
  /\ transactions = MOCK_TRANSACTIONS
  /\ uploadedEntries = <<>>
  /\ now = 0
  /\ reading = <<>>
  /\ alert = [kind |-> "none"]
  /\ lastCall = [fn |-> "none", n |-> 0]
  /\ input \in AmountInputs
  /\ output = Pending

applyParseCurrency ==
  /\ output = Pending
  /\ output' = [status |-> "done", value |-> parseCurrency(input)]
  /\ UNCHANGED <<transactions, uploadedEntries, now, reading, alert, lastCall, input>>

NextCurrency == applyParseCurrency

SpecCurrency == InitCurrency /\ [][NextCurrency]_vars

\* C12: parseCurrency gives the intended value for the canonical amounts of
\* either convention: "1.500.000,00" and "1,500,000.00" give 1500000,
\* "Rp 50.000" and "Rp 50.000,-" give 50000, "(50.000)" gives -50000 and
\* "abc" gives 0.
CanonicalValues ==
  output # Pending =>
    /\ input = <<"1", ".", "5", "0", "0", ".", "0", "0", "0", ",", "0", "0">> => output.value = Num(1500000)
    /\ input = <<"1", ",", "5", "0", "0", ",", "0", "0", "0", ".", "0", "0">> => output.value = Num(1500000)
    /\ input = <<"R", "p", " ", "5", "0", ".", "0", "0", "0">> => output.value = Num(50000)
    /\ input = <<"R", "p", " ", "5", "0", ".", "0", "0", "0", ",", "-">> => output.value = Num(50000)
    /\ input = <<"(", "5", "0", ".", "0", "0", "0", ")">> => output.value = Num(-50000)
    /\ input = <<"a", "b", "c">> => output.value = Zero

\* parseCurrency has returned on the amount "Rp 50.000,-" of the Import Guide.
CanonicalWitness ==
  /\ input = <<"R", "p", " ", "5", "0", ".", "0", "0", "0", ",", "-">>
  /\ output # Pending
  /\ output.value = Num(50000)

\* C13: parseCurrency returns a number on every text (empty, white space
\* only, separators only, a sign or parentheses only, letters only, or any
\* other): never NaN, and 0 whenever the text holds no digit to parse.
AlwaysNumeric ==
  output # Pending =>
    /\ output.value.m \in Int
    /\ output.value.e \in Nat
    /\ ~isNaN(output.value)
    /\ (\A k \in 1..Len(input) : ~IsDigit(input[k])) => output.value = Zero

\* parseCurrency has returned 0 on a text of separators, sign and
\* parentheses that holds no digit.
AlwaysNumericWitness ==
  /\ input = <<"(", "-", ",">>
  /\ output # Pending
  /\ output.value = Zero

(***************************************************************************)
(* detectDelimiter applied on its own: the header lines the contract names *)
(* and every text of at most MaxTextLen characters over TextChars.         *)
(***************************************************************************)
MaxTextLen == 4

TextChars == {"a", ";", "\t", ",", "\n"}

HeaderTexts ==
  { <<"a", ";", "b", ";", "c", "\n", "1", ";", "2", ";", "3">>, <<"a", "\t", "b", "\t", "c", "\n", "1", "\t", "2", "\t", "3">>, <<"a", ",", "b", ",", "c", "\n", "1", ",", "2", ",", "3">>, <<"a", ";", "b", ";", "c">> }

DelimiterInputs ==
  HeaderTexts \cup UNION {[1..n -> TextChars] : n \in 0..MaxTextLen}

InitDelimiter ==
  /\ transactions = MOCK_TRANSACTIONS
  /\ uploadedEntries = <<>>
  /\ now = 0
  /\ reading = <<>>
  /\ alert = [kind |-> "none"]
  /\ lastCall = [fn |-> "none", n |-> 0]
  /\ input \in DelimiterInputs
  /\ output = Pending

applyDetectDelimiter ==
  /\ output = Pending
  /\ output' = [status |-> "done", delimiter |-> detectDelimiter(input)]
  /\ UNCHANGED <<transactions, uploadedEntries, now, reading, alert, lastCall, input>>

NextDelimiter == applyDetectDelimiter

SpecDelimiter == InitDelimiter /\ [][NextDelimiter]_vars

\* The first line of a text: the characters before its first line feed.
firstLine(text) ==
  IF indexOf(text, <<"\n">>) = -1 THEN text ELSE SubSeq(text, 1, indexOf(text, <<"\n">>))

\* A text of one line (or none): it holds no line feed.
singleLine(text) == \A k \in 1..Len(text) : text[k] # "\n"

\* Character c is strictly more frequent in the first line than both other
\* candidates.
strictlyDominant(text, c) ==
  \A other \in {"\t", ";", ","} \ {c} :
    count(firstLine(text), c) > count(firstLine(text), other)

\* C14 as stated: detectDelimiter returns tab or semicolon only when that
\* character is strictly more frequent in the first line than both other
\* candidates, and comma in every other case (ties, no candidate, empty or
\* single-line text); the header lines "a;b;c", "a\tb\tc" and "a,b,c" of a
\* text with data rows detect ';', tab and ','.
StrictlyDominantDelimiter ==
  output # Pending =>
    /\ output.delimiter \in {"\t", ";", ","}
    /\ output.delimiter = "\t" => ~singleLine(input) /\ strictlyDominant(input, "\t")
    /\ output.delimiter = ";" => ~singleLine(input) /\ strictlyDominant(input, ";")
    /\ (~singleLine(input) /\ strictlyDominant(input, "\t")) => output.delimiter = "\t"
    /\ (~singleLine(input) /\ strictlyDominant(input, ";")) => output.delimiter = ";"
    /\ input = <<"a", ";", "b", ";", "c", "\n", "1", ";", "2", ";", "3">> => output.delimiter = ";"
    /\ input = <<"a", "\t", "b", "\t", "c", "\n", "1", "\t", "2", "\t", "3">> => output.delimiter = "\t"
    /\ input = <<"a", ",", "b", ",", "c", "\n", "1", ",", "2", ",", "3">> => output.delimiter = ","

(***************************************************************************)
(* splitCSVLine applied on its own: the two lines the contract names and   *)
(* every line of at most MaxLineLen characters over LineChars, cut at      *)
(* commas and cut at semicolons.                                           *)
(***************************************************************************)
MaxLineLen == 4

LineChars == {"a", ",", ";", "\"", " "}

QuotedLines == { <<"a", ",", "\"", "b", ",", "c", "\"", ",", "d">>, <<"a", ",", "\"", "b", "\"", "\"", "c", "\"", ",", "d">> }

SplitInputs ==
  { [line |-> line, delimiter |-> delimiter] :
      line \in QuotedLines \cup UNION {[1..n -> LineChars] : n \in 0..MaxLineLen},
      delimiter \in {",", ";"} }

InitSplit ==
  /\ transactions = MOCK_TRANSACTIONS
  /\ uploadedEntries = <<>>
  /\ now = 0
  /\ reading = <<>>
  /\ alert = [kind |-> "none"]
  /\ lastCall = [fn |-> "none", n |-> 0]
  /\ input \in SplitInputs
  /\ output = Pending

applySplitCSVLine ==
  /\ output = Pending
  /\ output' = [status |-> "done", fields |-> splitCSVLine(input.line, input.delimiter)]
  /\ UNCHANGED <<transactions, uploadedEntries, now, reading, alert, lastCall, input>>

NextSplit == applySplitCSVLine

SpecSplit == InitSplit /\ [][NextSplit]_vars

\* Position k of a line lies inside a quoted region: an odd number of quote
\* characters precede it (a doubled quote counts twice and changes nothing).
insideQuotes(line, k) == Cardinality({j \in 1..(k - 1) : line[j] = "\""}) % 2 = 1

\* The delimiters of a line that lie outside every quoted region.
cuts(line, delimiter) ==
  {k \in 1..Len(line) : line[k] = delimiter /\ ~insideQuotes(line, k)}

\* The j-th stretch of a line between two such delimiters.
stretch(line, delimiter, j) ==
  LET at(n) == IF n = 0 THEN 0
               ELSE IF n > Cardinality(cuts(line, delimiter)) THEN Len(line) + 1
               ELSE CHOOSE k \in cuts(line, delimiter) :
                      Cardinality({c \in cuts(line, delimiter) : c < k}) = n - 1
  IN SubSeq(line, at(j - 1) + 1, at(j) - 1)

\* The literal quotes of a line: in a run of n adjacent quote characters that
\* starts outside a quoted region the first opens the region and each later
\* pair is one literal quote; in a run that starts inside, each pair is one.
literalQuotes(line) ==
  LET starts == {s \in 1..Len(line) : line[s] = "\"" /\ (s = 1 \/ line[s - 1] # "\"")}
      run(s) == Cardinality({n \in 1..(Len(line) - s + 1) :
                               \A j \in s..(s + n - 1) : line[j] = "\""})
      literal(s) == IF insideQuotes(line, s) THEN run(s) \div 2 ELSE (run(s) - 1) \div 2
      sum[k \in 0..Len(line)] ==
        IF k = 0 THEN 0 ELSE sum[k - 1] + (IF k \in starts THEN literal(k) ELSE 0)
  IN sum[Len(line)]

RECURSIVE flatten(_)
flatten(fields) == IF fields = <<>> THEN <<>> ELSE Head(fields) \o flatten(Tail(fields))

\* C15: splitCSVLine is quote-aware for every line and delimiter: the line is
\* cut only at delimiters outside quoted regions; every field is trimmed and
\* holds the characters of its stretch of the line; the quotes that open or
\* close a region are in no field and each doubled quote inside a region is
\* one literal quote; a,"b,c",d gives [a, b,c, d] and a,"b""c",d gives
\* [a, b"c, d].
QuoteAwareSplit ==
  output # Pending =>
    LET line == input.line
        delimiter == input.delimiter
        fields == output.fields
    IN /\ Len(fields) = Cardinality(cuts(line, delimiter)) + 1
       /\ \A j \in 1..Len(fields) :
            /\ trim(fields[j]) = fields[j]
            /\ removeAll(fields[j], WhiteSpace \cup {"\""})
                 = removeAll(stretch(line, delimiter, j), WhiteSpace \cup {"\""})
       /\ count(flatten(fields), "\"") = literalQuotes(line)
       /\ (line = <<"a", ",", "\"", "b", ",", "c", "\"", ",", "d">> /\ delimiter = ",") => fields = << <<"a">>, <<"b", ",", "c">>, <<"d">> >>
       /\ (line = <<"a", ",", "\"", "b", "\"", "\"", "c", "\"", ",", "d">> /\ delimiter = ",") => fields = << <<"a">>, <<"b", "\"", "c">>, <<"d">> >>

\* splitCSVLine has returned on a line with a delimiter inside a quoted
\* region and a doubled quote: the field keeps the delimiter and one quote.
QuoteAwareWitness ==
  /\ output # Pending
  /\ input = [line |-> <<"\"", ",", "\"", "\"">>, delimiter |-> ","]
  /\ output.fields = << <<",", "\"">> >>

(***************************************************************************)
(* parseCSV of TransactionManager applied on its own: a header followed by *)
(* at most MaxRows data rows drawn from RowLines.                          *)
(***************************************************************************)
MaxRows == 3

\* A header no keyword matches (the positional fallback layout) and a header
\* with a single amount column.
BatchHeaders == { <<"a", ",", "b", ",", "c", ",", "d", ",", "e">>, <<"d", "a", "t", "e", ",", "r", "e", "f", ",", "d", "e", "s", "c", "r", "i", "p", "t", "i", "o", "n", ",", "a", "m", "o", "u", "n", "t">> }

\* Data rows: complete, empty, cut short with and without a description, with
\* a description and zero amounts, with an amount and no description.
RowLines ==
  { <<"2", "0", "2", "4", "-", "0", "6", "-", "1", "1", ",", "X", "1", ",", "P", "a", "r", "t", "s", ",", "1", "0", "0", "0", ",", "0">>, <<",", ",", ",", ",">>, <<"x", ",", "y", ",", "N", "o", "t", "e">>, <<"s", "h", "o", "r", "t", ",", "r", "o", "w">>, <<",", ",", "N", "o", "t", "e", ",", "0", ",", "0">>, <<",", ",", ",", "5">> }

BatchInputs ==
  { [header |-> header, rows |-> rows] :
      header \in BatchHeaders,
      rows \in UNION {[1..n -> RowLines] : n \in 0..MaxRows} }

\* The text of a file: its header and its rows, one to a line.
RECURSIVE joinLines(_)
joinLines(rows) == IF rows = <<>> THEN <<>> ELSE <<"\n">> \o Head(rows) \o joinLines(Tail(rows))

batchText(in) == in.header \o joinLines(in.rows)

InitBatch ==
  /\ transactions = MOCK_TRANSACTIONS
  /\ uploadedEntries = <<>>
  /\ now = 0
  /\ reading = <<>>
  /\ alert = [kind |-> "none"]
  /\ lastCall = [fn |-> "none", n |-> 0]
  /\ input \in BatchInputs
  /\ output = Pending

applyParseCSV ==
  /\ output = Pending
  /\ output' = [status |-> "done",
                result |-> TransactionManager_parseCSV(batchText(input),
                                                       [i \in 1..Len(input.rows) |-> now])]
  /\ UNCHANGED <<transactions, uploadedEntries, now, reading, alert, lastCall, input>>

NextBatch == applyParseCSV

SpecBatch == InitBatch /\ [][NextBatch]_vars

(***************************************************************************)
(* Properties of the import and of the entry form                          *)
(***************************************************************************)
\* The text of the end-to-end scenario, one of TransactionTexts.
EndToEndText == <<"d", "a", "t", "e", ",", "r", "e", "f", ",", "d", "e", "s", "c", "r", "i", "p", "t", "i", "o", "n", ",", "d", "e", "b", "i", "t", ",", "c", "r", "e", "d", "i", "t", "\n", "2", "0", "2", "4", "-", "0", "6", "-", "0", "1", ",", "I", "N", "V", "-", "1", "0", "0", "1", ",", "R", "e", "n", "t", "a", "l", " ", "I", "n", "c", "o", "m", "e", ",", ",", "4", "5", "0", "0", "0", "0">>

\* C16: every import of the text with header "date,ref,description,debit,
\* credit" and row "2024-06-01,INV-1001,Rental Income,,450000" adds exactly
\* one transaction, of category Revenue and amount 450000, whose derived
\* entry has the lines [1002 debit 450000, 4000 credit 450000], and the
\* revenue of the report grows by exactly 450000.
EndToEndImport ==
  [][\A k \in 1..Len(reading), after \in {transactions'}, uploaded \in {uploadedEntries'} :
       (/\ reading[k] = [view |-> "TransactionManager", text |-> EndToEndText]
        /\ reading' = removeAt(reading, k))
         => /\ Len(after) = Len(transactions) + 1
            /\ Tail(after) = transactions
            /\ after[1].category = "Revenue"
            /\ after[1].amount = Num(450000)
            /\ after[1].reference = <<"I", "N", "V", "-", "1", "0", "0", "1">>
            /\ Len(deriveEntry(after[1]).lines) = 2
            /\ Posting(deriveEntry(after[1]).lines[1]) = << <<"1", "0", "0", "2">>, Num(450000), Zero >>
            /\ Posting(deriveEntry(after[1]).lines[2]) = << <<"4", "0", "0", "0">>, Zero, Num(450000) >>
            /\ aggregate(combineEntries(uploaded, deriveAll(after))).revenue
                 = Add(incomeStatement.revenue, Num(450000))]_vars

\* The text has been imported: its transaction heads the store and the
\* report counts it.
EndToEndWitness ==
  /\ lastCall = [fn |-> "handleAddBatchTransactions", n |-> 1]
  /\ FromCSV(transactions[1])
  /\ transactions[1].reference = <<"I", "N", "V", "-", "1", "0", "0", "1">>
  /\ transactions[1].description = <<"R", "e", "n", "t", "a", "l", " ", "I", "n", "c", "o", "m", "e">>
  /\ transactions[1].amount = Num(450000)
  /\ incomeStatement.revenue = Add(aggregate(deriveAll(Tail(transactions))).revenue, Num(450000))

\* The fields of data row i of a batch input, cut at the comma.
rowFields(in, i) == splitCSVLine(in.rows[i], ",")

\* The transaction of the result that data row i has produced, if any: its id
\* ends with the index of the row.
producedBy(result, stamp, i) ==
  {k \in 1..Len(result.newTransactions) :
     result.newTransactions[k].id = <<"T", "X", "-", "C", "S", "V", "-">> \o toString(stamp) \o <<"-">> \o toString(i)}

\* C17 as stated: a data row with fewer columns than the minimum of its
\* layout (fewer than 4 fields in the positional layout, too few to reach the
\* amount column otherwise) produces no transaction, and the skipped rows are
\* counted in what the import reports to the caller; the import never halts.
SkipPolicy ==
  output # Pending =>
    LET short == {i \in 1..Len(input.rows) : Len(rowFields(input, i)) < 4}
    IN /\ \A i \in short : producedBy(output.result, now, i) = {}
       /\ short # {} =>
            \E field \in DOMAIN output.result.alert :
              /\ field \notin {"kind", "delimiter", "parsedCount", "revCount", "expCount"}
              /\ output.result.alert[field] = Cardinality(short)

\* The column roles of a batch input, from its lower-cased header.
rolesOf(in) ==
  inferColumns([k \in 1..Len(splitCSVLine(in.header, ",")) |->
                  toLowerCase(splitCSVLine(in.header, ",")[k])])

\* The resolved amount and the resolved description of data row i.
resolvedAmount(in, i) == calculateAmount(rowFields(in, i), rolesOf(in)).finalAmount

resolvedDescription(in, i) ==
  fallback(val(rowFields(in, i), rolesOf(in).idxDesc), rowFields(in, i), 2)

\* The data rows with a non-zero amount or a non-empty description.
meaningfulRows(in) ==
  {i \in 1..Len(in.rows) : resolvedAmount(in, i) # Zero \/ resolvedDescription(in, i) # <<>>}

\* C18: a data row becomes a transaction if and only if its resolved amount
\* is non-zero or its resolved description is non-empty; every other row is
\* dropped, without error and without effect on the rows after it: the batch
\* holds one transaction for each such row and no other, in row order, with
\* the amount of its row.
EmittedIffMeaningful ==
  output # Pending =>
    LET batch == output.result.newTransactions
        meaningful == meaningfulRows(input)
    IN /\ Len(batch) = Cardinality(meaningful)
       /\ \A i \in 1..Len(input.rows) :
            /\ i \in meaningful =>
                 /\ Cardinality(producedBy(output.result, now, i)) = 1
                 /\ \A k \in producedBy(output.result, now, i) :
                      /\ k = Cardinality({j \in meaningful : j <= i})
                      /\ batch[k].amount = resolvedAmount(input, i)
            /\ i \notin meaningful => producedBy(output.result, now, i) = {}
       /\ output.result.alert.kind \in {"Import Successful", "No valid data found"}

\* parseCSV has returned on a file whose second row is dropped (no amount, no
\* description) between a row kept for its description alone and a row kept
\* for its amount alone.
EmittedWitness ==
  /\ output # Pending
  /\ input = [header |-> <<"a", ",", "b", ",", "c", ",", "d", ",", "e">>, rows |-> << <<",", ",", "N", "o", "t", "e", ",", "0", ",", "0">>, <<",", ",", ",", ",">>, <<",", ",", ",", "5">> >>]
  /\ Len(output.result.newTransactions) = 2
  /\ output.result.newTransactions[1].amount = Zero
  /\ output.result.newTransactions[2].id = <<"T", "X", "-", "C", "S", "V", "-", "0", "-", "3">>

\* C19 as stated: for every transaction entered in the form, whatever its
\* category (Revenue, Expense or Asset), the contra account chosen in the
\* form (1002, 1001 or 2000) is the account posted against the category
\* account in its derived entry: the entry has two lines and the line that
\* is not on the category account is on the chosen account.
ContraAccountPosted ==
  LET entries == systemJournalEntries
      categoryAccounts == { <<"4", "0", "0", "0">>, <<"5", "0", "0", "1">>, <<"5", "0", "0", "2">>, <<"1", "2", "0", "0">> }
  IN \A i \in 1..Len(transactions) :
       (FromForm(transactions[i]) /\ transactions[i].category \in PostingCategories)
         => /\ Len(entries[i].lines) = 2
            /\ \E j \in 1..2 : entries[i].lines[j].accountId \in categoryAccounts
            /\ \E j \in 1..2 : /\ entries[i].lines[j].accountId \notin categoryAccounts
                               /\ entries[i].lines[j].accountId = transactions[i].contraAccount

\* Every batch an import of one of the files can materialize, whole: all its
\* transactions, whatever the clock at its rows.
Batches ==
  UNION { { TransactionImports[text][clock][tickAt].newTransactions :
              tickAt \in 0..dataRows(text) } :
            text \in TransactionTexts, clock \in 0..MaxClock } \ { << >> }

\* The index of the row a CSV transaction came from: the end of its id.
rowOf(tx) == digitsValue(SubSeq(tx.id, lastIndexOf(tx.id, <<"-">>) + 2, Len(tx.id)))

inRowOrder(batch) == \A k, l \in 1..Len(batch) : k < l => rowOf(batch[k]) < rowOf(batch[l])

\* A store is made of whole blocks: above the initial transactions, each
\* block is one form submission or all the transactions of one batch,
\* adjacent and in row order.
RECURSIVE wholeBlocks(_)
wholeBlocks(store) ==
  \/ store = MOCK_TRANSACTIONS
  \/ /\ Len(store) > Len(MOCK_TRANSACTIONS)
     /\ \/ FromForm(Head(store)) /\ wholeBlocks(Tail(store))
        \/ \E batch \in Batches :
             /\ Len(batch) <= Len(store)
             /\ SubSeq(store, 1, Len(batch)) = batch
             /\ inRowOrder(batch)
             /\ wholeBlocks(SubSeq(store, Len(batch) + 1, Len(store)))

\* C20: a batch import is atomic with respect to the store: in every
\* reachable state, whatever the interleaving of file loads and form
\* submissions, the store holds all the transactions of an imported file or
\* none of them, and those of one batch are adjacent and in row order.
BatchAtomic == wholeBlocks(transactions)

\* Two files were being read at once and both have loaded: the store holds
\* the one row of the second above the two rows of the first.
BatchAtomicWitness ==
  /\ Len(transactions) = Len(MOCK_TRANSACTIONS) + 3
  /\ \A k \in 1..3 : FromCSV(transactions[k])
  /\ transactions[1].reference = <<"I", "N", "V", "-", "1", "0", "0", "1">>
  /\ transactions[2].reference = <<"B", "-", "7">>
  /\ rowOf(transactions[3]) = 2
  /\ reading = <<>>

\* C21 as stated: every import of a text that yields no data rows (empty,
\* blank lines only, or a header line alone) leaves the transaction store
\* unchanged and ends in the "No valid data found" outcome, not in a thrown
\* failure or the parse-failure outcome.
NoDataOutcome ==
  [][\A k \in 1..Len(reading), shown \in {alert'} :
       (/\ reading[k].view = "TransactionManager"
        /\ dataRows(reading[k].text) = 0
        /\ reading' = removeAt(reading, k))
         => /\ transactions' = transactions
            /\ shown.kind = "No valid data found"]_vars

(***************************************************************************)
(* The column mapping of parseCSV applied on its own: a header row of at   *)
(* most MaxCols cells drawn from HeaderCells.                              *)
(***************************************************************************)
MaxCols == 3

\* Header cells as files write them: English and Indonesian, in any case,
\* some matching the keywords of two roles, one matching none.
HeaderCells ==
  { <<"D", "a", "t", "e">>, <<"T", "G", "L">>, <<"R", "e", "f", " ", "N", "o", ".">>, <<"K", "e", "t", "e", "r", "a", "n", "g", "a", "n">>, <<"T", "o", "t", "a", "l", " ", "D", "e", "b", "i", "t">>, <<"K", "r", "e", "d", "i", "t">>, <<"J", "u", "m", "l", "a", "h">>, <<"x">> }

ColumnInputs == UNION {[1..n -> HeaderCells] : n \in 0..MaxCols}

InitColumns ==
  /\ transactions = MOCK_TRANSACTIONS
  /\ uploadedEntries = <<>>
  /\ now = 0
  /\ reading = <<>>
  /\ alert = [kind |-> "none"]
  /\ lastCall = [fn |-> "none", n |-> 0]
  /\ input \in ColumnInputs
  /\ output = Pending

\* headers = cells.map(h => h.toLowerCase()), then getIdx for each role.
applyInferColumns ==
  /\ output = Pending
  /\ output' = [status |-> "done",
                roles |-> inferColumns([k \in 1..Len(input) |-> toLowerCase(input[k])])]
  /\ UNCHANGED <<transactions, uploadedEntries, now, reading, alert, lastCall, input>>

NextColumns == applyInferColumns

SpecColumns == InitColumns /\ [][NextColumns]_vars

\* The keywords of each role, as the getIdx calls list them.
RoleKeywords ==
  [idxDate   |-> {<<"d", "a", "t", "e">>, <<"t", "a", "n", "g", "g", "a", "l">>, <<"t", "g", "l">>},
   idxRef    |-> {<<"r", "e", "f">>, <<"n", "o", "m", "o", "r">>, <<"n", "o", ".">>, <<"c", "o", "d", "e">>},
   idxDesc   |-> {<<"d", "e", "s", "c", "r", "i", "p", "t", "i", "o", "n">>, <<"d", "e", "s", "k", "r", "i", "p", "s", "i">>, <<"k", "e", "t", "e", "r", "a", "n", "g", "a", "n">>, <<"a", "c", "c", "o", "u", "n", "t">>, <<"a", "k", "u", "n">>},
   idxDebit  |-> {<<"d", "e", "b", "i", "t">>, <<"m", "a", "s", "u", "k">>},
   idxCredit |-> {<<"c", "r", "e", "d", "i", "t">>, <<"k", "r", "e", "d", "i", "t">>, <<"k", "e", "l", "u", "a", "r">>},
   idxAmount |-> {<<"a", "m", "o", "u", "n", "t">>, <<"j", "u", "m", "l", "a", "h">>, <<"n", "i", "l", "a", "i">>, <<"t", "o", "t", "a", "l">>}]

\* Header cell i, case-folded, contains a keyword of the role.
cellMatches(cells, i, role) ==
  \E k \in RoleKeywords[role] : includes(toLowerCase(cells[i]), k)

\* C22: inferColumns maps each role (date, reference, description, debit,
\* credit, amount) to the index of the first header column whose case-folded
\* text contains one of the role's keywords, and to absent (-1) when no
\* header column matches.
FirstMatchingColumn ==
  output # Pending =>
    /\ DOMAIN output.roles = DOMAIN RoleKeywords
    /\ \A role \in DOMAIN RoleKeywords :
         IF \E i \in 1..Len(input) : cellMatches(input, i, role)
         THEN /\ output.roles[role] + 1 \in 1..Len(input)
              /\ cellMatches(input, output.roles[role] + 1, role)
              /\ \A j \in 1..output.roles[role] : ~cellMatches(input, j, role)
         ELSE output.roles[role] = -1

\* The mapping has been inferred from a header with two date columns and a
\* cell that matches both a debit and an amount keyword: the first date
\* column wins, debit and amount share a column, the other roles are absent.
FirstMatchingWitness ==
  /\ input = << <<"T", "G", "L">>, <<"D", "a", "t", "e">>, <<"T", "o", "t", "a", "l", " ", "D", "e", "b", "i", "t">> >>
  /\ output # Pending
  /\ output.roles.idxDate = 0
  /\ output.roles.idxDebit = 2
  /\ output.roles.idxAmount = 2
  /\ output.roles.idxCredit = -1

(***************************************************************************)
(* parseCSV of TransactionManager applied to one data row: each layout of  *)
(* RowHeaders with each row of five fields drawn from the Field sets.      *)
(***************************************************************************)
\* Debit and credit columns; no keyword (positional layout); a single amount
\* column; a single amount column with the reference in column 0 and the
\* date in column 1.
RowHeaders ==
  { <<"d", "a", "t", "e", ",", "r", "e", "f", ",", "d", "e", "s", "c", "r", "i", "p", "t", "i", "o", "n", ",", "d", "e", "b", "i", "t", ",", "c", "r", "e", "d", "i", "t">>, <<"a", ",", "b", ",", "c", ",", "d", ",", "e">>,
    <<"d", "a", "t", "e", ",", "r", "e", "f", ",", "d", "e", "s", "c", "r", "i", "p", "t", "i", "o", "n", ",", "a", "m", "o", "u", "n", "t">>, <<"r", "e", "f", ",", "d", "a", "t", "e", ",", "d", "e", "s", "c", "r", "i", "p", "t", "i", "o", "n", ",", "a", "m", "o", "u", "n", "t">> }

\* Data rows of five fields: the first two empty or not, a description with
\* or without an asset keyword or empty, and two amounts.
FieldRows ==
  { first \o <<",">> \o second \o <<",">> \o third \o <<",">> \o fourth \o <<",">> \o fifth :
      first \in {<<"2", "0", "2", "4", "-", "0", "6", "-", "1", "1">>, <<>>},
      second \in {<<"X", "1">>, <<>>},
      third \in {<<"P", "a", "r", "t", "s">>, <<"B", "e", "l", "i", " ", "M", "o", "t", "o", "r">>, <<>>},
      fourth \in {<<>>, <<"0">>, <<"7", "0", "0">>, <<"(", "7", "0", "0", ")">>},
      fifth \in {<<>>, <<"3", "0", "0">>} }

RowInputs ==
  { [header |-> header, rows |-> <<row>>] : header \in RowHeaders, row \in FieldRows }

InitRow ==
  /\ transactions = MOCK_TRANSACTIONS
  /\ uploadedEntries = <<>>
  /\ now = 0
  /\ reading = <<>>
  /\ alert = [kind |-> "none"]
  /\ lastCall = [fn |-> "none", n |-> 0]
  /\ input \in RowInputs
  /\ output = Pending

SpecRow == InitRow /\ [][NextBatch]_vars

\* The layouts of RowHeaders by what the header infers.
DebitCreditLayout(in) == rolesOf(in).idxDebit >= 0 /\ rolesOf(in).idxCredit >= 0

AmountLayout(in) == ~DebitCreditLayout(in) /\ rolesOf(in).idxAmount >= 0

PositionalLayout(in) == ~DebitCreditLayout(in) /\ rolesOf(in).idxAmount < 0

\* The debit and the credit value of the one data row: fields 3 and 4 in
\* both the debit/credit layout of RowHeaders and the positional layout.
debitOf(in) == parseCurrency(rowFields(in, 1)[4])

creditOf(in) == parseCurrency(rowFields(in, 1)[5])

\* C23 as stated: with a debit and a credit column inferred, a row with a
\* positive credit materializes with amount = +credit and category Revenue,
\* a row with a positive debit (and no positive credit) with amount = -debit
\* and category Expense, and a row where both are zero has amount 0; with a
\* single amount column inferred, amount = parseCurrency(amount field).
AmountResolution ==
  output # Pending =>
    LET batch == output.result.newTransactions
    IN /\ DebitCreditLayout(input) =>
            /\ Gt0(creditOf(input)) =>
                 /\ Len(batch) = 1
                 /\ batch[1].amount = creditOf(input)
                 /\ batch[1].category = "Revenue"
            /\ (~Gt0(creditOf(input)) /\ Gt0(debitOf(input))) =>
                 /\ Len(batch) = 1
                 /\ batch[1].amount = Neg(debitOf(input))
                 /\ batch[1].category = "Expense"
            /\ (creditOf(input) = Zero /\ debitOf(input) = Zero) =>
                 \A k \in 1..Len(batch) : batch[k].amount = Zero
       /\ AmountLayout(input) =>
            \A k \in 1..Len(batch) :
              batch[k].amount = parseCurrency(val(rowFields(input, 1), rolesOf(input).idxAmount))

\* The description of the one data row mentions an asset keyword.
mentionsAsset(in) ==
  \E k \in { <<"a", "s", "s", "e", "t">>, <<"a", "s", "e", "t">>, <<"m", "o", "t", "o", "r">>, <<"u", "n", "i", "t">> } :
    includes(toLowerCase(resolvedDescription(in, 1)), k)

\* C24 as stated: the description-keyword override that turns a row with a
\* negative amount into category Asset applies only to rows whose amount came
\* from a single amount column; a row whose amount came from explicit debit
\* and credit columns keeps the category those columns fix (Expense for a
\* debit) whatever its description.
OverrideOnlyWithoutDebitCredit ==
  output # Pending =>
    LET batch == output.result.newTransactions
    IN /\ (DebitCreditLayout(input) /\ ~Gt0(creditOf(input)) /\ Gt0(debitOf(input))) =>
            (Len(batch) = 1 /\ batch[1].category = "Expense")
       /\ (AmountLayout(input) /\ Len(batch) = 1 /\ Lt0(batch[1].amount)) =>
            batch[1].category = (IF mentionsAsset(input) THEN "Asset" ELSE "Expense")

\* The value a role resolves to on the one data row when the positional
\* column k stands in only for an absent role.
resolvedByRole(in, idx, k) ==
  IF idx >= 0 THEN val(rowFields(in, 1), idx)
  ELSE IF Len(rowFields(in, 1)) > k THEN rowFields(in, 1)[k + 1]
  ELSE <<>>

orDefault(value, default) == IF value = <<>> THEN default ELSE value

\* C25 as stated: the reference of a materialized transaction is the value
\* of the inferred reference column when the role is present, positional
\* column 1 only when the role is absent, and the synthetic "CSV-<row index>"
\* when the value resolved is empty; date (column 0) and description
\* (column 2) fall back to their positional column only when their role is
\* absent too.
RoleAbsentFallback ==
  output # Pending =>
    \A k \in 1..Len(output.result.newTransactions) :
      LET tx == output.result.newTransactions[k]
      IN /\ tx.reference
              = orDefault(resolvedByRole(input, rolesOf(input).idxRef, 1), <<"C", "S", "V", "-", "1">>)
         /\ tx.date = orDefault(resolvedByRole(input, rolesOf(input).idxDate, 0), todayISO)
         /\ tx.description
              = orDefault(resolvedByRole(input, rolesOf(input).idxDesc, 2),
                          <<"I", "m", "p", "o", "r", "t", "e", "d", " ", "T", "r", "a", "n", "s", "a", "c", "t", "i", "o", "n">>)

\* C28: when a row carries a positive debit and a positive credit, in
\* inferred debit and credit columns or in the positional five-column
\* layout, the credit takes precedence: the transaction has amount = +credit
\* and category Revenue, and its derived entry posts the credit alone (1002
\* debit, 4000 credit), the debit value appearing nowhere.
CreditPrecedence ==
  (/\ output # Pending
   /\ DebitCreditLayout(input) \/ PositionalLayout(input)
   /\ Gt0(debitOf(input))
   /\ Gt0(creditOf(input)))
      => LET batch == output.result.newTransactions
         IN /\ Len(batch) = 1
            /\ batch[1].amount = creditOf(input)
            /\ batch[1].category = "Revenue"
            /\ Len(deriveEntry(batch[1]).lines) = 2
            /\ Posting(deriveEntry(batch[1]).lines[1]) = << <<"1", "0", "0", "2">>, creditOf(input), Zero >>
            /\ Posting(deriveEntry(batch[1]).lines[2]) = << <<"4", "0", "0", "0">>, Zero, creditOf(input) >>

\* A row of the positional layout with debit 700 and credit 300 has
\* materialized as revenue of 300.
CreditPrecedenceWitness ==
  /\ output # Pending
  /\ input = [header |-> <<"a", ",", "b", ",", "c", ",", "d", ",", "e">>, rows |-> << <<"2", "0", "2", "4", "-", "0", "6", "-", "1", "1", ",", "X", "1", ",", "P", "a", "r", "t", "s", ",", "7", "0", "0", ",", "3", "0", "0">> >>]
  /\ Len(output.result.newTransactions) = 1
  /\ output.result.newTransactions[1].amount = Num(300)

\* C26: in every state reachable from the mock transactions by form
\* submissions and CSV imports, every stored transaction has category
\* Revenue, Expense or Asset, and so every system-derived entry has exactly
\* two lines: a line on the debit side (no credit) followed by a line on the
\* credit side (no debit).
TwoLineEntries ==
  LET entries == systemJournalEntries
  IN \A i \in 1..Len(transactions) :
       /\ transactions[i].category \in PostingCategories
       /\ Len(entries[i].lines) = 2
       /\ entries[i].lines[1].credit = Zero
       /\ entries[i].lines[2].debit = Zero
       /\ Gt0(abs(transactions[i].amount)) =>
            (Gt0(entries[i].lines[1].debit) /\ Gt0(entries[i].lines[2].credit))

\* The store holds an asset purchase entered in the form and an expense
\* imported from a CSV file, each with its two lines.
TwoLineWitness ==
  /\ \E i \in 1..Len(transactions) :
       FromForm(transactions[i]) /\ transactions[i].category = "Asset"
  /\ \E i \in 1..Len(transactions) :
       /\ FromCSV(transactions[i])
       /\ transactions[i].category \in {"Expense", "Asset"}
       /\ Len(systemJournalEntries[i].lines) = 2

\* C27: in every reachable state the sign of a stored amount agrees with the
\* category: Revenue has amount >= 0, Expense and Asset have amount <= 0, for
\* the mock data, every form submission and every imported row.
SignAgreesWithCategory ==
  \A i \in 1..Len(transactions) :
    /\ ~isNaN(transactions[i].amount)
    /\ transactions[i].category = "Revenue" => Ge0(transactions[i].amount)
    /\ transactions[i].category \in {"Expense", "Asset"} => ~Gt0(transactions[i].amount)

\* The store holds a form expense and an imported row of negative amount.
SignWitness ==
  /\ \E i \in 1..Len(transactions) :
       /\ FromForm(transactions[i])
       /\ transactions[i].category = "Expense"
       /\ Lt0(transactions[i].amount)
  /\ \E i \in 1..Len(transactions) :
       FromCSV(transactions[i]) /\ Lt0(transactions[i].amount)

\* C29 as stated: the delimiter used to split an imported text is detected
\* from the line the import treats as the header row, its first non-blank
\* line, for every text that has a header and data, texts that begin with
\* blank lines included: it is the delimiter detected on a text whose first
\* line is that header.
DelimiterFromHeaderRow ==
  (output # Pending /\ Len(nonBlankLines(input)) >= 2)
    => output.delimiter = detectDelimiter(nonBlankLines(input)[1] \o <<"\n">>)

\* The data rows of a raw journal text that count: non-blank lines after
\* the header with at least 5 comma-separated fields.
journalRows(text) ==
  {i \in 2..Len(split(text, "\n")) :
     /\ trim(split(text, "\n")[i]) # <<>>
     /\ Len(split(trim(split(text, "\n")[i]), ",")) >= 5}

\* Field k of such a row, trimmed.
journalField(text, i, k) == trim(split(trim(split(text, "\n")[i]), ",")[k])

\* The rows of a text that carry reference ref, and the n-th of them.
rowsOfReference(text, ref) == {i \in journalRows(text) : journalField(text, i, 2) = ref}

nthRow(rows, n) == CHOOSE i \in rows : Cardinality({j \in rows : j < i}) = n - 1

\* An entry holds the rows of its reference in file order and the date of the
\* first of them.
groupsReference(entry, text) ==
  LET rows == rowsOfReference(text, entry.reference)
  IN /\ rows # {}
     /\ entry.date = journalField(text, nthRow(rows, 1), 1)
     /\ Len(entry.lines) = Cardinality(rows)
     /\ \A n \in 1..Len(entry.lines) :
          /\ entry.lines[n].accountName
               = removeAll(journalField(text, nthRow(rows, n), 3), {"\""})
          /\ entry.lines[n].debit = cleanNumber(journalField(text, nthRow(rows, n), 4))
          /\ entry.lines[n].credit = cleanNumber(journalField(text, nthRow(rows, n), 5))

\* C30 as stated: each raw grouped-by-reference import appends exactly one
\* entry for each distinct reference among its non-blank data rows of at
\* least 5 comma-separated fields, with those rows as its lines in file order
\* and the date of the first of them; it never changes the transaction store
\* and leaves every entry uploaded before present and unmodified.
OneEntryPerReference ==
  [][\A k \in 1..Len(reading), after \in {uploadedEntries'} :
       (/\ reading[k].view = "AccountingView"
        /\ reading' = removeAt(reading, k))
         => LET text == reading[k].text
                added == SubSeq(after, Len(uploadedEntries) + 1, Len(after))
            IN /\ transactions' = transactions
               /\ Len(after) >= Len(uploadedEntries)
               /\ SubSeq(after, 1, Len(uploadedEntries)) = uploadedEntries
               /\ Len(added) = Cardinality({journalField(text, i, 2) : i \in journalRows(text)})
               /\ \A i \in journalRows(text) :
                    Cardinality({n \in 1..Len(added) :
                                   added[n].reference = journalField(text, i, 2)}) = 1
               /\ \A n \in 1..Len(added) : groupsReference(added[n], text)]_vars

====
